---- MODULE Spec2Model ----
(***************************************************************************)
(* A model of the ucoro coroutine engine (include/ucoro/ucoro.hpp): the    *)
(* coroutine object, the thread-local current-coroutine pointer, the       *)
(* context switch between stacks, and the byte-stack data channel.         *)
(*                                                                         *)
(* Stacks are identified by the coroutine that owns them; stack 0 is the   *)
(* thread's own stack.  The value 0 also stands for the null pointer.      *)
(***************************************************************************)
EXTENDS Integers, Sequences, FiniteSets, TLC

\* ------------------------------------------------------------------------
\* Bounds of the model
\* ------------------------------------------------------------------------
NCoro == 2          \* coroutine objects that may be created (Spec)
NCtl == 3           \* coroutine objects that may be created (SpecCtl)
CtlStorage == 1     \* storage_size requested at creation (Spec)
CtlLen == 1         \* longest buffer handed to push / pop / peek (Spec)
MaxStorage == 3     \* storage_size requested at creation (SpecData)
MaxLen == 2         \* longest buffer handed to push / pop / peek (SpecData)
MaxByte == 1        \* byte values are 0..MaxByte
StackSize == 2      \* stack_size of every coroutine, in address units
NOwn == 2           \* blocks that may be allocated (SpecOwn)
NOwner == 2         \* owning handles (coroutine objects) that may exist at once

NULL == 0
MAIN == NULL
MaxCoros ==
    IF NCtl >= NCoro /\ NCtl >= NOwn THEN NCtl
    ELSE IF NCoro >= NOwn THEN NCoro ELSE NOwn
Coros == 1..MaxCoros
Stacks == 0..MaxCoros
Byte == 0..MaxByte
Owners == 1..NOwner
magic_number == 2117906857      \* 0x7E3CB1A9

Buffers(maxlen) == UNION {[1..n -> Byte] : n \in 0..maxlen}

\* ------------------------------------------------------------------------
\* Memory layout (mco_create_context, mco_makectx), in address units.
\* Block c holds, from low to high addresses: header + context + storage
\* (one unit), the stack, and the tail margin (one unit).
\* ------------------------------------------------------------------------
BlockSize == StackSize + 2
BlockBase(c) == c * BlockSize
stack_base(c) == BlockBase(c) + 1
stack_size(c) == StackSize
RedZone == 1

\* Addresses a fresh local variable can have when the code executes on
\* stack e: a frame inside the usable part of the stack, or, after the body
\* ran past the low end of its stack, the unit just below stack_base.
LocalAddrs(e) ==
    IF e = MAIN THEN {0}
    ELSE (stack_base(e) - 1) .. (stack_base(e) + stack_size(e) - 1 - RedZone)

\* The address of a local variable after the body ran further past the low
\* end of its stack, through the head of its own block into the tail margin
\* of the block that the allocator placed right before it.
OverrunAddrs(e) == IF e = MAIN THEN {} ELSE {BlockBase(e) - 1}

VARIABLES
    alive,            \* coroutine objects that exist (allocated, not released)
    ncreated,         \* number of objects ever allocated
    state,            \* co->state
    prev_co,          \* co->prev_co
    co_magic,         \* co->magic_number
    storage,          \* co->storage[0 .. storage_size-1]
    bytes_stored,     \* co->bytes_stored
    storage_size,     \* co->storage_size
    ctx,              \* context->ctx: the stack whose registers are saved there
    back_ctx,         \* context->back_ctx: the stack whose registers are saved there
    mco_current_co,   \* thread-local current-coroutine pointer
    exec,             \* the stack the thread is executing on
    pc,               \* per stack: where its innermost engine frame stands
    arg,              \* per stack: the coroutine argument of that frame
    call,             \* the last call made: operation and argument
    ret,              \* the last return: operation, argument, result, bytes
    lifo,             \* per coroutine: values pushed and not yet popped
    freed,            \* per block: how many times the deallocator was given it
    owners,           \* the owning handles (coroutine objects) that exist
    handle_,          \* per owning handle: coroutine::handle_
    func_wrapper_,    \* per owning handle: coroutine::func_wrapper_
    wrapper_freed,    \* per function wrapper: how many times it was deleted
    desc,             \* the descriptor and the layout of the last coroutine::create
    prog,             \* per coroutine: what its body has still to do
    frame,            \* the call of generator or task_runner that is in progress
    tasks_,           \* task_runner::tasks_, the coroutines its elements own
    current_,         \* generator<T>::iterator::current_ (<<>> is nullopt)
    log               \* what the calls of generator and task_runner did

vars == <<alive, ncreated, state, prev_co, co_magic, storage, bytes_stored,
          storage_size, ctx, back_ctx, mco_current_co, exec, pc, arg,
          call, ret, lifo, freed, owners, handle_, func_wrapper_,
          wrapper_freed, desc, prog, frame, tasks_, current_, log>>

coreVars == <<alive, ncreated, state, prev_co, co_magic, ctx, back_ctx,
              mco_current_co, exec, pc, arg, freed>>
ownVars == <<owners, handle_, func_wrapper_, wrapper_freed>>
auxVars == <<desc, prog, frame, tasks_, current_, log>>
dataVars == <<storage, bytes_stored, storage_size, lifo>>

\* val: the bytes pushed, popped or peeked.  pre: for a successful push, the
\* stored bytes before it; for a pop, the bytes pushed by the call right
\* before it when that was a successful push on the same coroutine.
Ret(op, co, res, val, pre) ==
    [op |-> op, co |-> co, res |-> res, val |-> val, pre |-> pre]
\* own: the owning handle the call was made through; from: the owning handle
\* moved from; stack: the stack_size of the descriptor; addr: the address of
\* the local variable of mco_yield (0 where there is none).
Call(op, co, len, null) ==
    [op |-> op, co |-> co, len |-> len, null |-> null, by |-> exec,
     own |-> 0, from |-> 0, stack |-> 0, addr |-> 0]

\* The bytes below the cursor, bottom first.
Stored(c) == [k \in 1..bytes_stored[c] |-> storage[c][k - 1]]
Front(s) == SubSeq(s, 1, Len(s) - 1)

\* No descriptor was made.
DescNone ==
    [op |-> "none", stack |-> 0, storage |-> 0, res |-> "none",
     co_addr |-> 0, stack_size |-> 0, storage_size |-> 0, coro_size |-> 0,
     context |-> 0, storage_at |-> 0, stack_base |-> 0, high_addr |-> 0]

\* No call of generator or task_runner is in progress.
FrameIdle == [op |-> "idle", stack |-> MAIN, it |-> 0, phase |-> "none", res |-> "none"]

LogNone == [mode |-> "none", start |-> <<>>, calls |-> 0, out |-> <<>>,
            visited |-> <<>>, resumed |-> <<>>, ret |-> <<>>, added |-> <<>>]

\* The state of the parts that a specification does not use.
AuxInit ==
    /\ desc = DescNone
    /\ prog = [c \in Coros |-> <<>>]
    /\ frame = FrameIdle
    /\ tasks_ = <<>>
    /\ current_ = <<>>
    /\ log = LogNone

\* The state after construction of the engine and of the handles.
BaseInit ==
    /\ alive = {}
    /\ ncreated = 0
    /\ state = [c \in Coros |-> "dead"]
    /\ prev_co = [c \in Coros |-> NULL]
    /\ co_magic = [c \in Coros |-> 0]
    /\ storage = [c \in Coros |-> <<>>]
    /\ bytes_stored = [c \in Coros |-> 0]
    /\ storage_size = [c \in Coros |-> 0]
    /\ ctx = [c \in Coros |-> c]
    /\ back_ctx = [c \in Coros |-> MAIN]
    /\ mco_current_co = NULL
    /\ exec = MAIN
    /\ pc = [s \in Stacks |-> IF s = MAIN THEN "body" ELSE "none"]
    /\ arg = [s \in Stacks |-> NULL]
    /\ call = [op |-> "none", co |-> NULL, len |-> 0, null |-> FALSE, by |-> MAIN,
               own |-> 0, from |-> 0, stack |-> 0, addr |-> 0]
    /\ ret = Ret("none", NULL, "success", <<>>, <<>>)
    /\ lifo = [c \in Coros |-> <<>>]
    /\ freed = [c \in Coros |-> 0]
    /\ owners = {}
    /\ handle_ = [o \in Owners |-> NULL]
    /\ func_wrapper_ = [o \in Owners |-> NULL]
    /\ wrapper_freed = [c \in Coros |-> 0]

Init == BaseInit /\ AuxInit

\* ------------------------------------------------------------------------
\* mco_create / mco_init / mco_create_context / mco_makectx
\* ------------------------------------------------------------------------
\* Variant: the state of a block as calloc left it (0 is dead).
mco_init_state_zeroed == "dead"

\* co->state = coro_state::suspended
mco_init_state == "suspended"

\* The stacks of the model have the minimum size.
min_stack_size == StackSize

\* Variant: a descriptor without entry function is accepted.
mco_init_accepts_nofunc(func, stack) == stack >= min_stack_size

\* mco_init accepts the descriptor: func says that desc->func is not null,
\* stack is desc->stack_size.
mco_init_accepts(func, stack) == func /\ stack >= min_stack_size

\* The block co, just obtained from the allocator, is initialised.
mco_init(co, size) ==
    /\ alive' = alive \cup {co}
    /\ state' = [state EXCEPT ![co] = mco_init_state]
    /\ prev_co' = [prev_co EXCEPT ![co] = NULL]
    /\ co_magic' = [co_magic EXCEPT ![co] = magic_number]
    /\ storage' = [storage EXCEPT ![co] = [i \in 0..(size - 1) |-> 0]]
    /\ bytes_stored' = [bytes_stored EXCEPT ![co] = 0]
    /\ storage_size' = [storage_size EXCEPT ![co] = size]
    /\ ctx' = [ctx EXCEPT ![co] = co]
    /\ pc' = [pc EXCEPT ![co] = "start"]
    /\ arg' = [arg EXCEPT ![co] = co]
    /\ lifo' = [lifo EXCEPT ![co] = <<>>]

\* mco_create with a descriptor that has both allocator callbacks: a block
\* is allocated; when mco_init refuses the descriptor the block goes back to
\* the deallocator and the output pointer (ret.co) is null.
mco_create(func, stack, size) ==
    /\ ncreated < MaxCoros
    /\ LET co == ncreated + 1 IN
       /\ ncreated' = co
       /\ call' = [Call("create", NULL, size, ~func) EXCEPT !.stack = stack]
       /\ IF ~mco_init_accepts(func, stack)
          THEN /\ freed' = [freed EXCEPT ![co] = @ + 1]
               /\ ret' = Ret("create", NULL, "invalid_arguments", <<>>, <<>>)
               /\ UNCHANGED <<alive, state, prev_co, co_magic, ctx, pc, arg,
                              dataVars>>
          ELSE /\ mco_init(co, size)
               /\ ret' = Ret("create", co, "success", <<>>, <<>>)
               /\ UNCHANGED freed
       /\ UNCHANGED <<back_ctx, mco_current_co, exec>>

\* ------------------------------------------------------------------------
\* mco_prepare_jumpin / mco_prepare_jumpout: the bookkeeping around a switch
\* ------------------------------------------------------------------------
jumpin_prev_state == "normal"

\* Variant: the resumer is not marked normal.
mco_prepare_jumpin_state_keep(st, co) == st

mco_prepare_jumpin_state(st, co) ==
    IF mco_current_co # NULL
    THEN [st EXCEPT ![mco_current_co] = jumpin_prev_state]
    ELSE st

\* Variant: the resumer is not recorded in prev_co.
mco_prepare_jumpin_prev_lost(co) == prev_co

mco_prepare_jumpin_prev(co) == [prev_co EXCEPT ![co] = mco_current_co]

mco_prepare_jumpin_current(co) == co

\* Variant: the resumer is marked suspended instead of running.
mco_prepare_jumpout_state_susp(st, co) ==
    IF prev_co[co] # NULL
    THEN [st EXCEPT ![prev_co[co]] = "suspended"]
    ELSE st

mco_prepare_jumpout_state(st, co) ==
    IF prev_co[co] # NULL
    THEN [st EXCEPT ![prev_co[co]] = "running"]
    ELSE st

\* Variant: prev_co is not cleared.
mco_prepare_jumpout_prev_kept(co) == prev_co

mco_prepare_jumpout_prev(co) == [prev_co EXCEPT ![co] = NULL]

\* Variant: the current pointer is cleared instead of restored.
mco_prepare_jumpout_current_null(co) == NULL

mco_prepare_jumpout_current(co) == prev_co[co]

\* ------------------------------------------------------------------------
\* _mco_switch(from, to): the registers of the executing stack are saved and
\* the thread continues on stack `to` where that stack's engine frame stood:
\* at the trampoline (the body starts), inside mco_jumpin (mco_resume
\* returns success) or inside mco_jumpout (mco_yield returns success).
\* `leaving` is where the executing stack stands while it is switched out.
\* ------------------------------------------------------------------------
Arrive(to, leaving, leavingArg) ==
    /\ pc[to] \in {"start", "resume", "yield"}
    /\ to # exec
    /\ exec' = to
    /\ pc' = [pc EXCEPT ![exec] = leaving, ![to] = "body"]
    /\ arg' = [arg EXCEPT ![exec] = leavingArg]
    /\ ret' = CASE pc[to] = "start"  -> Ret("entry", arg[to], "success", <<>>, <<>>)
                [] pc[to] = "resume" -> Ret("resume", arg[to], "success", <<>>, <<>>)
                [] pc[to] = "yield"  -> Ret("yield", arg[to], "success", <<>>, <<>>)

\* ------------------------------------------------------------------------
\* mco_resume (behind coroutine::resume)
\* ------------------------------------------------------------------------
\* Variant: only a dead coroutine is refused.
resume_allowed_notdead(co) == state[co] # "dead"

resume_allowed(co) == state[co] = "suspended"

\* o: the owning handle whose resume() makes the call, 0 when the call is
\* made on the bare pointer.
mco_resume_from(co, o) ==
    /\ call' = [Call("resume", co, 0, FALSE) EXCEPT !.own = o]
    /\ IF co = NULL
       THEN /\ ret' = Ret("resume", co, "invalid_coroutine", <<>>, <<>>)
            /\ UNCHANGED <<coreVars, dataVars>>
       ELSE IF ~resume_allowed(co)
       THEN /\ ret' = Ret("resume", co, "not_suspended", <<>>, <<>>)
            /\ UNCHANGED <<coreVars, dataVars>>
       ELSE /\ state' = mco_prepare_jumpin_state([state EXCEPT ![co] = "running"], co)
            /\ prev_co' = mco_prepare_jumpin_prev(co)
            /\ mco_current_co' = mco_prepare_jumpin_current(co)
            /\ back_ctx' = [back_ctx EXCEPT ![co] = exec]
            /\ Arrive(ctx[co], "resume", co)
            /\ UNCHANGED <<alive, ncreated, co_magic, ctx, freed, dataVars>>

mco_resume(co) == mco_resume_from(co, 0)

\* ------------------------------------------------------------------------
\* mco_yield (behind coroutine_handle::yield); addr is the address of the
\* local variable `dummy` of this call.
\* ------------------------------------------------------------------------
\* Variant: the state is left running by yield.
yield_state_running == "running"

yield_state == "suspended"

StackCheckFails(co, addr) ==
    \/ co_magic[co] # magic_number
    \/ addr < stack_base(co)
    \/ addr > stack_base(co) + stack_size(co)

mco_yield(co, addr) ==
    /\ call' = [Call("yield", co, 0, FALSE) EXCEPT !.addr = addr]
    /\ IF co = NULL
       THEN /\ ret' = Ret("yield", co, "invalid_coroutine", <<>>, <<>>)
            /\ UNCHANGED <<coreVars, dataVars>>
       ELSE IF StackCheckFails(co, addr)
       THEN /\ ret' = Ret("yield", co, "stack_overflow", <<>>, <<>>)
            /\ UNCHANGED <<coreVars, dataVars>>
       ELSE IF state[co] # "running"
       THEN /\ ret' = Ret("yield", co, "not_running", <<>>, <<>>)
            /\ UNCHANGED <<coreVars, dataVars>>
       ELSE /\ state' = mco_prepare_jumpout_state([state EXCEPT ![co] = yield_state], co)
            /\ prev_co' = mco_prepare_jumpout_prev(co)
            /\ mco_current_co' = mco_prepare_jumpout_current(co)
            /\ ctx' = [ctx EXCEPT ![co] = exec]
            /\ Arrive(back_ctx[co], "yield", co)
            /\ UNCHANGED <<alive, ncreated, co_magic, back_ctx, freed, dataVars>>

\* ------------------------------------------------------------------------
\* mco_main: the entry function of the coroutine whose stack is executing
\* returns; the terminal transition.
\* ------------------------------------------------------------------------
\* Variant: the terminal transition empties the byte-stack.
mco_main_return_empties ==
    /\ exec # MAIN
    /\ LET co == exec IN
       /\ call' = Call("return", co, 0, FALSE)
       /\ state' = mco_prepare_jumpout_state([state EXCEPT ![co] = "dead"], co)
       /\ prev_co' = mco_prepare_jumpout_prev(co)
       /\ mco_current_co' = mco_prepare_jumpout_current(co)
       /\ ctx' = [ctx EXCEPT ![co] = exec]
       /\ Arrive(back_ctx[co], "finished", co)
       /\ bytes_stored' = [bytes_stored EXCEPT ![co] = 0]
       /\ UNCHANGED <<alive, ncreated, co_magic, back_ctx, freed, storage,
                      storage_size, lifo>>

mco_main_return ==
    /\ exec # MAIN
    /\ LET co == exec IN
       /\ call' = Call("return", co, 0, FALSE)
       /\ state' = mco_prepare_jumpout_state([state EXCEPT ![co] = "dead"], co)
       /\ prev_co' = mco_prepare_jumpout_prev(co)
       /\ mco_current_co' = mco_prepare_jumpout_current(co)
       /\ ctx' = [ctx EXCEPT ![co] = exec]
       /\ Arrive(back_ctx[co], "finished", co)
       /\ UNCHANGED <<alive, ncreated, co_magic, back_ctx, freed, dataVars>>

\* ------------------------------------------------------------------------
\* mco_uninit / mco_destroy (behind coroutine::destroy): the block is handed
\* to the recorded deallocator, after which the object no longer exists.
\* ------------------------------------------------------------------------
\* Variant: only the running coroutine is refused.
mco_uninit_allowed_notrunning(co) == state[co] # "running"

mco_uninit_allowed(co) == state[co] \in {"suspended", "dead"}

\* mco_uninit succeeded: the state is dead and the block is given to
\* dealloc_cb (never null in an object made by mco_create).
mco_dealloc(co) ==
    /\ state' = [state EXCEPT ![co] = "dead"]
    /\ alive' = alive \ {co}
    /\ freed' = [freed EXCEPT ![co] = @ + 1]

mco_destroy(co) ==
    /\ call' = Call("destroy", co, 0, FALSE)
    /\ IF co = NULL
       THEN /\ ret' = Ret("destroy", co, "invalid_coroutine", <<>>, <<>>)
            /\ UNCHANGED <<coreVars, dataVars>>
       ELSE IF ~mco_uninit_allowed(co)
       THEN /\ ret' = Ret("destroy", co, "invalid_operation", <<>>, <<>>)
            /\ UNCHANGED <<coreVars, dataVars>>
       ELSE /\ mco_dealloc(co)
            /\ ret' = Ret("destroy", co, "success", <<>>, <<>>)
            /\ UNCHANGED <<ncreated, prev_co, co_magic, ctx, back_ctx,
                           mco_current_co, exec, pc, arg, dataVars>>

\* ------------------------------------------------------------------------
\* mco_running (behind running()) and mco_status (behind status(), done())
\* ------------------------------------------------------------------------
mco_running ==
    /\ call' = Call("running", NULL, 0, FALSE)
    /\ ret' = Ret("running", mco_current_co, "success", <<>>, <<>>)
    /\ UNCHANGED <<coreVars, dataVars>>

mco_status(co) ==
    /\ call' = Call("status", co, 0, FALSE)
    /\ ret' = Ret("status", co, IF co # NULL THEN state[co] ELSE "dead", <<>>, <<>>)
    /\ UNCHANGED <<coreVars, dataVars>>

\* ------------------------------------------------------------------------
\* The byte-stack: mco_push, mco_pop, mco_peek (behind the typed push, pop,
\* peek and push_bytes of both handles).  src is the source buffer and len
\* its length; srcnull / destnull say that the pointer passed is null.
\* ------------------------------------------------------------------------
\* Variant: the bytes are written one place too low.
memcpy_in_low(mem, at, src, len) ==
    [i \in DOMAIN mem |->
        IF at - 1 <= i /\ i < at - 1 + len THEN src[i - at + 2] ELSE mem[i]]

memcpy_in(mem, at, src, len) ==
    [i \in DOMAIN mem |-> IF at <= i /\ i < at + len THEN src[i - at + 1] ELSE mem[i]]

\* Variant: the bytes are read from the bottom of the storage.
memcpy_out_bottom(mem, at, len) == [k \in 1..len |-> mem[k - 1]]

memcpy_out(mem, at, len) == [k \in 1..len |-> mem[at + k - 1]]

\* Variant: the capacity check is off by one.
push_fits_off(co, len) == bytes_stored[co] + len <= storage_size[co] + 1

\* Variant: a push that fills the storage exactly is refused.
push_fits_strict(co, len) == bytes_stored[co] + len < storage_size[co]

push_fits(co, len) == bytes_stored[co] + len <= storage_size[co]

push_cursor(co, len) == bytes_stored[co] + len

\* Variant: a push that finds the byte-stack full suspends the running
\* coroutine until there is room.
push_refused_suspends(co) ==
    IF state[co] = "running" /\ exec = co
    THEN /\ state' = mco_prepare_jumpout_state([state EXCEPT ![co] = yield_state], co)
         /\ prev_co' = mco_prepare_jumpout_prev(co)
         /\ mco_current_co' = mco_prepare_jumpout_current(co)
         /\ ctx' = [ctx EXCEPT ![co] = exec]
         /\ Arrive(back_ctx[co], "yield", co)
         /\ UNCHANGED <<alive, ncreated, co_magic, back_ctx, freed, dataVars>>
    ELSE /\ ret' = Ret("push", co, "not_enough_space", <<>>, <<>>)
         /\ UNCHANGED <<coreVars, dataVars>>

\* return mco_result::not_enough_space
push_refused(co) ==
    /\ ret' = Ret("push", co, "not_enough_space", <<>>, <<>>)
    /\ UNCHANGED <<coreVars, dataVars>>

mco_push(co, src, len, srcnull) ==
    /\ call' = Call("push", co, len, srcnull)
    /\ IF co = NULL
       THEN /\ ret' = Ret("push", co, "invalid_coroutine", <<>>, <<>>)
            /\ UNCHANGED <<coreVars, dataVars>>
       ELSE IF len = 0
       THEN /\ ret' = Ret("push", co, "success", <<>>, <<>>)
            /\ UNCHANGED <<coreVars, dataVars>>
       ELSE IF ~push_fits(co, len)
       THEN push_refused(co)
       ELSE IF srcnull
       THEN /\ ret' = Ret("push", co, "invalid_pointer", <<>>, <<>>)
            /\ UNCHANGED <<coreVars, dataVars>>
       ELSE /\ storage' = [storage EXCEPT ![co] = memcpy_in(@, bytes_stored[co], src, len)]
            /\ bytes_stored' = [bytes_stored EXCEPT ![co] = push_cursor(co, len)]
            /\ lifo' = [lifo EXCEPT ![co] = Append(@, src)]
            /\ ret' = Ret("push", co, "success", src, Stored(co))
            /\ UNCHANGED <<coreVars, storage_size>>

\* Variant: a pop of everything that is stored is refused.
pop_short_ge(co, len) == len >= bytes_stored[co]

\* More bytes are asked for than are stored.
pop_short(co, len) == len > bytes_stored[co]

pop_cursor(co, len) == bytes_stored[co] - len

JustPushed(co) ==
    IF call.op = "push" /\ call.co = co /\ ret.res = "success" THEN ret.val ELSE <<>>

\* The record of pushed values after a pop of len bytes: the top value is
\* gone when it had that size; a pop that cuts across values ends the record.
LifoAfterPop(l, len) ==
    IF l # <<>> /\ Len(l[Len(l)]) = len THEN Front(l) ELSE <<>>

mco_pop(co, len, destnull) ==
    /\ call' = Call("pop", co, len, destnull)
    /\ IF co = NULL
       THEN /\ ret' = Ret("pop", co, "invalid_coroutine", <<>>, <<>>)
            /\ UNCHANGED <<coreVars, dataVars>>
       ELSE IF len = 0
       THEN /\ ret' = Ret("pop", co, "success", <<>>, <<>>)
            /\ UNCHANGED <<coreVars, dataVars>>
       ELSE IF pop_short(co, len)
       THEN /\ ret' = Ret("pop", co, "not_enough_space", <<>>, <<>>)
            /\ UNCHANGED <<coreVars, dataVars>>
       ELSE /\ bytes_stored' = [bytes_stored EXCEPT ![co] = pop_cursor(co, len)]
            /\ lifo' = [lifo EXCEPT ![co] = LifoAfterPop(@, len)]
            /\ ret' = Ret("pop", co, "success",
                          IF destnull THEN <<>>
                          ELSE memcpy_out(storage[co], pop_cursor(co, len), len),
                          JustPushed(co))
            /\ UNCHANGED <<coreVars, storage, storage_size>>

\* Variant: peek reads at the bottom of the storage.
peek_at_bottom(co, len) == 0

\* Where peek reads.
peek_at(co, len) == bytes_stored[co] - len

mco_peek(co, len, destnull) ==
    /\ call' = Call("peek", co, len, destnull)
    /\ IF co = NULL
       THEN /\ ret' = Ret("peek", co, "invalid_coroutine", <<>>, <<>>)
       ELSE IF len = 0
       THEN /\ ret' = Ret("peek", co, "success", <<>>, <<>>)
       ELSE IF len > bytes_stored[co]
       THEN /\ ret' = Ret("peek", co, "not_enough_space", <<>>, <<>>)
       ELSE IF destnull
       THEN /\ ret' = Ret("peek", co, "invalid_pointer", <<>>, <<>>)
       ELSE /\ ret' = Ret("peek", co, "success",
                          memcpy_out(storage[co], peek_at(co, len), len), <<>>)
    /\ UNCHANGED <<coreVars, dataVars>>

Handles == {NULL} \cup alive

\* One call of the engine made by the code executing on stack exec (the
\* thread's own code or a coroutine body), or the return of the body.
\* StepCtl: the calls on the lifecycle; StepData: the calls on the
\* byte-stack, with buffers of at most maxlen bytes.
StepCtl ==
    /\ \/ \E co \in Handles : mco_resume(co)
       \/ \E co \in Handles : \E addr \in LocalAddrs(exec) : mco_yield(co, addr)
       \/ mco_main_return
       \/ \E co \in Handles : mco_destroy(co)
       \/ mco_running
       \/ \E co \in Handles : mco_status(co)
    /\ UNCHANGED <<ownVars, auxVars>>

StepData(maxlen) ==
    /\ \/ \E co \in alive : \E src \in Buffers(maxlen) : mco_push(co, src, Len(src), FALSE)
       \/ \E co \in alive : \E len \in 0..maxlen : mco_push(co, <<>>, len, TRUE)
       \/ \E co \in alive : \E len \in 0..maxlen : \E destnull \in BOOLEAN :
             mco_pop(co, len, destnull)
       \/ \E co \in alive : \E len \in 0..maxlen : \E destnull \in BOOLEAN :
             mco_peek(co, len, destnull)
       \/ mco_push(NULL, <<0>>, 1, FALSE)
       \/ mco_pop(NULL, 1, FALSE)
       \/ mco_peek(NULL, 1, FALSE)
    /\ UNCHANGED <<ownVars, auxVars>>

\* Spec: up to NCoro coroutines that resume one another and use their small
\* byte-stacks; every operation.
Next ==
    \/ ncreated < NCoro /\ mco_create(TRUE, StackSize, CtlStorage) /\ UNCHANGED <<ownVars, auxVars>>
    \/ StepCtl
    \/ StepData(CtlLen)
Spec == Init /\ [][Next]_vars

\* SpecCtl: up to NCtl coroutines that resume one another; the operations
\* on the lifecycle only (the byte-stack operations write none of the
\* variables these read).
NextCtl ==
    \/ ncreated < NCtl /\ mco_create(TRUE, StackSize, CtlStorage) /\ UNCHANGED <<ownVars, auxVars>>
    \/ StepCtl
SpecCtl == Init /\ [][NextCtl]_vars

\* SpecYield: as Spec without the byte-stack, and with bodies that call yield
\* after a deep overrun of their stack.
NextYield ==
    \/ ncreated < NCoro /\ mco_create(TRUE, StackSize, CtlStorage) /\ UNCHANGED <<ownVars, auxVars>>
    \/ StepCtl
    \/ /\ \E co \in Handles : \E addr \in OverrunAddrs(exec) : mco_yield(co, addr)
       /\ UNCHANGED <<ownVars, auxVars>>
SpecYield == Init /\ [][NextYield]_vars

\* SpecData: one coroutine, created with a byte-stack of MaxStorage bytes,
\* and its owner.
BaseInitData ==
    /\ alive = {1}
    /\ ncreated = 1
    /\ state = [c \in Coros |-> IF c = 1 THEN mco_init_state ELSE "dead"]
    /\ prev_co = [c \in Coros |-> NULL]
    /\ co_magic = [c \in Coros |-> IF c = 1 THEN magic_number ELSE 0]
    /\ storage = [c \in Coros |-> IF c = 1 THEN [i \in 0..(MaxStorage - 1) |-> 0] ELSE <<>>]
    /\ bytes_stored = [c \in Coros |-> 0]
    /\ storage_size = [c \in Coros |-> IF c = 1 THEN MaxStorage ELSE 0]
    /\ ctx = [c \in Coros |-> c]
    /\ back_ctx = [c \in Coros |-> MAIN]
    /\ mco_current_co = NULL
    /\ exec = MAIN
    /\ pc = [s \in Stacks |-> IF s = MAIN THEN "body" ELSE IF s = 1 THEN "start" ELSE "none"]
    /\ arg = [s \in Stacks |-> IF s = 1 THEN 1 ELSE NULL]
    /\ call = [op |-> "create", co |-> NULL, len |-> MaxStorage, null |-> FALSE,
               by |-> MAIN, own |-> 0, from |-> 0, stack |-> StackSize, addr |-> 0]
    /\ ret = Ret("create", 1, "success", <<>>, <<>>)
    /\ lifo = [c \in Coros |-> <<>>]
    /\ freed = [c \in Coros |-> 0]
    /\ owners = {}
    /\ handle_ = [o \in Owners |-> NULL]
    /\ func_wrapper_ = [o \in Owners |-> NULL]
    /\ wrapper_freed = [c \in Coros |-> 0]

InitData == BaseInitData /\ AuxInit

NextData == StepCtl \/ StepData(MaxLen)
SpecData == InitData /\ [][NextData]_vars

\* ------------------------------------------------------------------------
\* The owning handle (class coroutine): handle_ and func_wrapper_ of the
\* coroutine objects that exist.  The function wrapper that
\* coroutine::create allocates for a coroutine is named by that coroutine.
\* ------------------------------------------------------------------------
\* Variant: the source of a move keeps its pointer.
exchange_null_kept(field, other) == field

\* std::exchange(other.field, nullptr): the field afterwards.
exchange_null(field, other) == [field EXCEPT ![other] = NULL]

\* coroutine::create(func, stack, storage), its result constructed in o;
\* func says that the function is not empty.  The descriptor that
\* mco_desc_init makes has the entry point and a clamped stack size.
coroutine_create(o, func, size) ==
    /\ o \notin owners
    /\ IF ~func
       THEN /\ call' = [Call("coroutine_create", NULL, size, TRUE) EXCEPT !.own = o]
            /\ ret' = Ret("coroutine_create", NULL, "invalid_arguments", <<>>, <<>>)
            /\ UNCHANGED <<coreVars, dataVars, ownVars>>
       ELSE /\ mco_create(TRUE, StackSize, size)
            /\ owners' = owners \cup {o}
            /\ handle_' = [handle_ EXCEPT ![o] = ncreated + 1]
            /\ func_wrapper_' = [func_wrapper_ EXCEPT ![o] = ncreated + 1]
            /\ UNCHANGED wrapper_freed

\* coroutine::destroy of owning handle o, but for the two fields it nulls:
\* mco_destroy is called on handle_ and its result is not looked at; the
\* function wrapper is deleted.
coroutine_destroy(o) ==
    /\ IF handle_[o] # NULL /\ mco_uninit_allowed(handle_[o])
       THEN mco_dealloc(handle_[o])
       ELSE UNCHANGED <<state, alive, freed>>
    /\ wrapper_freed' =
          IF func_wrapper_[o] # NULL
          THEN [wrapper_freed EXCEPT ![func_wrapper_[o]] = @ + 1]
          ELSE wrapper_freed

\* ~coroutine()
coroutine_drop(o) ==
    /\ o \in owners
    /\ call' = [Call("drop", handle_[o], 0, FALSE) EXCEPT !.own = o]
    /\ ret' = Ret("drop", handle_[o], "success", <<>>, <<>>)
    /\ coroutine_destroy(o)
    /\ owners' = owners \ {o}
    /\ handle_' = [handle_ EXCEPT ![o] = NULL]
    /\ func_wrapper_' = [func_wrapper_ EXCEPT ![o] = NULL]
    /\ UNCHANGED <<ncreated, prev_co, co_magic, ctx, back_ctx, mco_current_co,
                   exec, pc, arg, dataVars>>

\* coroutine(coroutine &&other), the new object being o
coroutine_move(o, other) ==
    /\ o \notin owners /\ other \in owners
    /\ call' = [Call("move", handle_[other], 0, FALSE) EXCEPT !.own = o, !.from = other]
    /\ ret' = Ret("move", handle_[other], "success", <<>>, <<>>)
    /\ owners' = owners \cup {o}
    /\ handle_' = [exchange_null(handle_, other) EXCEPT ![o] = handle_[other]]
    /\ func_wrapper_' =
          [exchange_null(func_wrapper_, other) EXCEPT ![o] = func_wrapper_[other]]
    /\ UNCHANGED <<coreVars, dataVars, wrapper_freed>>

\* operator=(coroutine &&other) of object o
coroutine_assign(o, other) ==
    /\ o \in owners /\ other \in owners
    /\ call' = [Call("assign", handle_[other], 0, FALSE) EXCEPT !.own = o, !.from = other]
    /\ ret' = Ret("assign", handle_[other], "success", <<>>, <<>>)
    /\ IF o = other
       THEN UNCHANGED <<coreVars, dataVars, ownVars>>
       ELSE /\ coroutine_destroy(o)
            /\ handle_' = [exchange_null(handle_, other) EXCEPT ![o] = handle_[other]]
            /\ func_wrapper_' =
                  [exchange_null(func_wrapper_, other) EXCEPT ![o] = func_wrapper_[other]]
            /\ UNCHANGED <<owners, ncreated, prev_co, co_magic, ctx, back_ctx,
                           mco_current_co, exec, pc, arg, dataVars>>

\* coroutine::resume of object o
coroutine_resume(o) ==
    /\ o \in owners
    /\ IF handle_[o] = NULL
       THEN /\ call' = [Call("resume", NULL, 0, FALSE) EXCEPT !.own = o]
            /\ ret' = Ret("resume", NULL, "invalid_coroutine", <<>>, <<>>)
            /\ UNCHANGED <<coreVars, dataVars>>
       ELSE mco_resume_from(handle_[o], o)
    /\ UNCHANGED ownVars

\* The descriptors that mco_init refuses: no entry function, a stack below
\* the minimum, or both.
BadDescs == {<<FALSE, StackSize>>, <<TRUE, StackSize - 1>>, <<FALSE, StackSize - 1>>}

\* SpecOwn: up to NOwn blocks, the coroutines in them owned by up to NOwner
\* coroutine objects that are created, moved, assigned, resumed and dropped
\* by the thread's code and by the bodies; the bodies yield through
\* running() and return; mco_create is also called with refused descriptors.
NextOwn ==
    \/ \E o \in Owners : \E func \in BOOLEAN :
          ncreated < NOwn /\ coroutine_create(o, func, CtlStorage) /\ UNCHANGED auxVars
    \/ \E o, other \in Owners : coroutine_move(o, other) /\ UNCHANGED auxVars
    \/ \E o, other \in Owners : coroutine_assign(o, other) /\ UNCHANGED auxVars
    \/ \E o \in Owners : coroutine_drop(o) /\ UNCHANGED auxVars
    \/ \E o \in Owners : coroutine_resume(o) /\ UNCHANGED auxVars
    \/ /\ exec # MAIN
       /\ \E addr \in LocalAddrs(exec) : mco_yield(mco_current_co, addr)
       /\ UNCHANGED <<ownVars, auxVars>>
    \/ mco_main_return /\ UNCHANGED <<ownVars, auxVars>>
    \/ \E d \in BadDescs :
          ncreated < NOwn /\ mco_create(d[1], d[2], CtlStorage) /\ UNCHANGED <<ownVars, auxVars>>
SpecOwn == Init /\ [][NextOwn]_vars

\* ------------------------------------------------------------------------
\* Properties
\* ------------------------------------------------------------------------
\* C1: whenever resume returns success, the coroutine it resumed is
\* suspended or dead, never running or normal.
C1_ResumeReturnsSuspendedOrDead ==
    (ret.op = "resume" /\ ret.res = "success")
        => state[ret.co] \in {"suspended", "dead"}

\* A resume made by a body (a nested resume) has returned success to it,
\* the resumed coroutine having yielded.
C1_Witness ==
    /\ ret.op = "resume" /\ ret.res = "success"
    /\ exec # MAIN
    /\ call.op = "yield"
    /\ state[ret.co] = "suspended"

\* C2: resume on an existing coroutine that is not suspended (dead, running
\* or normal) returns not_suspended and changes no coroutine state, no
\* previous link, not the current pointer, and switches no context.
C2_ResumeNotSuspended ==
    [][(call'.op = "resume" /\ call'.co # NULL /\ state[call'.co] # "suspended")
        => /\ ret' = Ret("resume", call'.co, "not_suspended", <<>>, <<>>)
           /\ UNCHANGED <<coreVars, dataVars>>]_vars

\* A child has resumed its ancestor, which is normal, and got not_suspended.
C2_Witness ==
    /\ ret.op = "resume" /\ ret.res = "not_suspended"
    /\ state[ret.co] = "normal"
    /\ call.by # MAIN /\ call.by # ret.co

\* C3: every change of the state of a coroutine that exists before and
\* after the step is one of the five transitions of the state machine, made
\* by the operation that the state machine names; nothing leaves dead.
C3_Transition(c, from, to) ==
    \/ /\ from = "suspended" /\ to = "running"
       /\ call'.op = "resume" /\ call'.co = c
    \/ /\ from = "running" /\ to = "suspended"
       /\ call'.op = "yield" /\ call'.co = c /\ call'.by = c
    \/ /\ from = "running" /\ to = "normal"
       /\ call'.op = "resume" /\ call'.co # c /\ call'.by = c
    \/ /\ from = "normal" /\ to = "running"
       /\ call'.op \in {"yield", "return"} /\ call'.co # c /\ prev_co[call'.co] = c
    \/ /\ from = "running" /\ to = "dead"
       /\ call'.op = "return" /\ call'.co = c

C3_OnlyListedTransitions ==
    [][\A c \in alive \cap alive' :
          state'[c] # state[c] => C3_Transition(c, state[c], state'[c])]_vars

\* A child resumed by a body has died and the body is running again.
C3_Witness ==
    /\ call.op = "return" /\ ret.op = "resume"
    /\ exec # MAIN
    /\ state[exec] = "running"
    /\ call.co \in alive /\ state[call.co] = "dead"

\* C4: the current-coroutine pointer is null exactly while the thread
\* executes outside every body, and otherwise designates the coroutine whose
\* body is executing; running() returns it.
C4_CurrentIsExecuting ==
    /\ mco_current_co = exec
    /\ (ret.op = "running" => ret.co = exec)

\* B, resumed by the body of A, has yielded: the thread is back in A and
\* the pointer is A again.
C4_Witness ==
    /\ ret.op = "resume" /\ ret.res = "success"
    /\ call.op = "yield"
    /\ exec # MAIN /\ mco_current_co = exec /\ call.co # exec

\* C5: a coroutine whose state is running is the one the current pointer
\* designates, so at most one coroutine is running.
C5_RunningIsCurrent ==
    /\ \A c \in alive : state[c] = "running" => mco_current_co = c
    /\ Cardinality({c \in alive : state[c] = "running"}) <= 1

\* One coroutine is running while another, which resumed it, is normal.
C5_Witness ==
    \E c, d \in alive : state[c] = "running" /\ state[d] = "normal"

\* The previous links followed from coroutine c, c first, for at most n
\* links.
RECURSIVE PrevChain(_, _)
PrevChain(c, n) ==
    IF c = NULL \/ n = 0 THEN <<>> ELSE <<c>> \o PrevChain(prev_co[c], n - 1)

\* C6: the previous links from the current coroutine form a finite acyclic
\* chain, every coroutine on it other than its head is normal, and every
\* normal coroutine is on it (one or more links away from the head).
C6_NormalOnChain ==
    LET ch == PrevChain(mco_current_co, MaxCoros + 1) IN
    /\ Len(ch) <= MaxCoros
    /\ \A i, j \in 1..Len(ch) : ch[i] = ch[j] => i = j
    /\ \A i \in 2..Len(ch) : state[ch[i]] = "normal"
    /\ \A c \in alive : state[c] = "normal" => \E i \in 2..Len(ch) : ch[i] = c

\* The chain has three coroutines: the current one, the one that resumed
\* it and the one that resumed that one.
C6_Witness ==
    /\ Len(PrevChain(mco_current_co, MaxCoros + 1)) = 3
    /\ state[prev_co[mco_current_co]] = "normal"
    /\ state[prev_co[prev_co[mco_current_co]]] = "normal"

\* C7: a coroutine whose state is dead or suspended has a null previous link.
C7_NoPrevWhenIdle ==
    \A c \in alive : state[c] \in {"dead", "suspended"} => prev_co[c] = NULL

\* A coroutine resumed by another body (so its previous link was set) has
\* yielded or died and control is back in that body.
C7_Witness ==
    /\ ret.op = "resume" /\ ret.res = "success"
    /\ exec # MAIN
    /\ ret.co \in alive
    /\ state[ret.co] \in {"dead", "suspended"} /\ prev_co[ret.co] = NULL
\* C8: for every coroutine, bytes_stored never exceeds storage_capacity,
\* whatever pushes, pops, peeks, resumes and yields were made.
C8_StoredWithinCapacity ==
    \A c \in alive : bytes_stored[c] <= storage_size[c]

\* A push into a full byte-stack has been refused.
C8_Witness ==
    /\ call.op = "push" /\ ret.res = "not_enough_space"
    /\ call.co \in alive
    /\ bytes_stored[call.co] = storage_size[call.co]
    /\ call.len = 1

\* C9: the byte-stack is last-in first-out: a pop of the size of the value
\* pushed last and not yet popped returns that value, so values of equal
\* size pushed with no pop in between come back in reverse order, whichever
\* side pushes or pops.
C9_Lifo ==
    [][\A c \in alive :
          (/\ call'.op = "pop" /\ call'.co = c /\ ret'.res = "success"
           /\ call'.len > 0 /\ ~call'.null
           /\ lifo[c] # <<>> /\ Len(lifo[c][Len(lifo[c])]) = call'.len)
          => ret'.val = lifo[c][Len(lifo[c])]]_vars

\* Three one-byte values were pushed and the body has popped the last one,
\* which differs from the one pushed before it.
C9_Witness ==
    /\ call.op = "pop" /\ ret.res = "success" /\ call.len = 1 /\ ~call.null
    /\ call.by # MAIN
    /\ Len(lifo[call.co]) = 2
    /\ ret.val # lifo[call.co][2]

StoredOf(mem, n) == [k \in 1..n |-> mem[k - 1]]

\* C10: a successful push of n > 0 bytes immediately followed by a pop of n
\* bytes returns the pushed bytes and leaves bytes_stored and the bytes
\* below the cursor as they were before the push.
C10_PopAfterPush ==
    [][(/\ call.op = "push" /\ ret.res = "success" /\ call.len > 0
        /\ call'.op = "pop" /\ call'.co = call.co /\ call'.len = call.len
        /\ ~call'.null)
       => /\ ret'.res = "success"
          /\ ret'.val = ret.val
          /\ bytes_stored'[call.co] = Len(ret.pre)
          /\ StoredOf(storage'[call.co], bytes_stored'[call.co]) = ret.pre]_vars

\* A two-byte value pushed on top of a stored byte has been popped again
\* by the very next call.
C10_Witness ==
    /\ call.op = "pop" /\ ret.res = "success" /\ call.len = 2 /\ ~call.null
    /\ Len(ret.pre) = 2 /\ ret.val = ret.pre
    /\ bytes_stored[call.co] >= 1

\* The top n bytes of the byte-stack of c, lowest first.
TopOf(c, n) == [k \in 1..n |-> storage[c][bytes_stored[c] - n + k - 1]]

\* C11: a peek, successful or not, leaves bytes_stored and the stored bytes
\* as they were; a peek or a pop of n bytes made right after a successful
\* peek of n bytes on the same coroutine succeeds and returns the value that
\* peek returned.
C11_PeekChangesNothing ==
    [][/\ call'.op = "peek" => UNCHANGED <<bytes_stored, storage, storage_size>>
       /\ (/\ call.op = "peek" /\ ret.res = "success" /\ call.len > 0
           /\ call'.op \in {"peek", "pop"} /\ call'.co = call.co
           /\ call'.len = call.len /\ ~call'.null)
          => (ret'.res = "success" /\ ret'.val = ret.val)]_vars

\* Two bytes were peeked off a byte-stack of three, and they are not the
\* two bytes at its bottom.
C11_Witness ==
    /\ call.op = "peek" /\ ret.res = "success" /\ call.len = 2
    /\ bytes_stored[call.co] = 3
    /\ ret.val = TopOf(call.co, 2)
    /\ ret.val # StoredOf(storage[call.co], 2)

\* C12: a push of n > 0 bytes from a source buffer succeeds exactly when
\* bytes_stored + n <= storage_size and otherwise returns not_enough_space;
\* a push that does not succeed leaves bytes_stored and the storage as they
\* were; a push of zero bytes succeeds and changes nothing.
C12_PushFitsOrRefused ==
    [][\A c \in alive : (call'.op = "push" /\ call'.co = c) =>
          /\ (call'.len > 0 /\ ~call'.null) =>
                /\ ret'.res = "success" <=> bytes_stored[c] + call'.len <= storage_size[c]
                /\ ret'.res \in {"success", "not_enough_space"}
                /\ ret'.res = "success" => bytes_stored'[c] = bytes_stored[c] + call'.len
          /\ ret'.res # "success" => UNCHANGED <<bytes_stored, storage>>
          /\ call'.len = 0 => (ret'.res = "success" /\ UNCHANGED <<bytes_stored, storage>>)]_vars

\* A push of two bytes was refused with one byte free.
C12_Witness ==
    /\ call.op = "push" /\ ret.res = "not_enough_space" /\ call.len = 2
    /\ ~call.null /\ call.co \in alive
    /\ bytes_stored[call.co] = storage_size[call.co] - 1

\* C13: a pop or a peek of n > 0 bytes with n > bytes_stored returns
\* not_enough_space and leaves bytes_stored and the storage as they were; a
\* pop of n > 0 bytes with a null destination and n <= bytes_stored succeeds
\* and removes the top n bytes, the bytes below staying.
C13_PopPeekShort ==
    [][\A c \in alive :
          (call'.op \in {"pop", "peek"} /\ call'.co = c /\ call'.len > 0) =>
             /\ call'.len > bytes_stored[c] =>
                   (ret'.res = "not_enough_space" /\ UNCHANGED <<bytes_stored, storage>>)
             /\ (call'.op = "pop" /\ call'.null /\ call'.len <= bytes_stored[c]) =>
                   /\ ret'.res = "success"
                   /\ bytes_stored'[c] = bytes_stored[c] - call'.len
                   /\ StoredOf(storage'[c], bytes_stored'[c])
                         = StoredOf(storage[c], bytes_stored[c] - call'.len)]_vars

\* A pop of everything that was stored, two bytes, with a null destination
\* has succeeded.
C13_Witness ==
    /\ call.op = "pop" /\ call.null /\ call.len = 2 /\ ret.res = "success"
    /\ call.co \in alive /\ bytes_stored[call.co] = 0

\* C14: resume, yield and the return of the body leave bytes_stored, the
\* storage and its size as they were, so what one side stored before the
\* switch is what the other side finds after it; the thread's code can read
\* the byte-stack of a dead coroutine.
C14_SwitchKeepsByteStack ==
    [][/\ call'.op \in {"resume", "yield", "return"}
          => UNCHANGED <<bytes_stored, storage, storage_size>>
       /\ \A c \in alive :
             (/\ call'.op = "peek" /\ call'.co = c /\ state[c] = "dead"
              /\ ~call'.null /\ call'.len \in 1..bytes_stored[c])
             => (ret'.res = "success" /\ ret'.val = TopOf(c, call'.len))]_vars

\* The body pushed two bytes and returned; the thread's code has peeked
\* them off the dead coroutine.
C14_Witness ==
    /\ call.op = "peek" /\ call.by = MAIN /\ ret.res = "success" /\ call.len = 2
    /\ call.co \in alive /\ state[call.co] = "dead"
    /\ lifo[call.co] # <<>> /\ lifo[call.co][Len(lifo[call.co])] = ret.val
    /\ ret.val # <<0, 0>>

\* C15: yield on an existing coroutine whose state is not running returns
\* not_running and changes no state, no previous link and not the current
\* pointer, and switches no context.
C15_YieldNotRunning ==
    [][(call'.op = "yield" /\ call'.co # NULL /\ state[call'.co] # "running")
        => /\ ret'.res = "not_running"
           /\ UNCHANGED <<state, prev_co, mco_current_co, exec>>]_vars

\* The address a lies in the stack of co: stack_base <= a < stack_base + stack_size.
InStack(co, a) == stack_base(co) <= a /\ a < stack_base(co) + stack_size(co)

\* C16: yield on an existing coroutine returns something other than
\* stack_overflow only if the magic number is the canonical one and the
\* address of its local variable lies in [stack_base, stack_base + stack_size);
\* when it returns stack_overflow no state, no previous link and not the
\* current pointer has changed and no context was switched.
C16_OverflowCheck ==
    [][(call'.op = "yield" /\ call'.co # NULL)
        => /\ ret'.res = "stack_overflow"
                <=> ~(co_magic[call'.co] = magic_number /\ InStack(call'.co, call'.addr))
           /\ ret'.res = "stack_overflow"
                => UNCHANGED <<state, prev_co, mco_current_co, exec>>]_vars

\* C17: mco_destroy on a running or normal coroutine returns
\* invalid_operation and changes nothing; on a suspended or dead coroutine
\* it gives the block to the deallocator once; no block is given to the
\* deallocator while its coroutine is running or normal, nor a second time.
C17_DestroyOnlyIdle ==
    [][/\ (call'.op = "destroy" /\ call'.co # NULL) =>
             IF state[call'.co] \in {"running", "normal"}
             THEN ret'.res = "invalid_operation" /\ UNCHANGED <<coreVars, dataVars>>
             ELSE /\ ret'.res = "success"
                  /\ freed'[call'.co] = freed[call'.co] + 1
                  /\ call'.co \notin alive'
       /\ freed' # freed =>
             \A c \in Coros : freed'[c] # freed[c] =>
                /\ c \in alive /\ state[c] \in {"suspended", "dead"}
                /\ freed[c] = 0 /\ freed'[c] = 1]_vars

\* A body has called destroy on the coroutine that resumed it, which is
\* normal, and was refused; the block has not been released.
C17_Witness ==
    /\ call.op = "destroy" /\ ret.res = "invalid_operation"
    /\ call.by # MAIN /\ call.co \in alive
    /\ state[call.co] = "normal" /\ freed[call.co] = 0

\* The owning handles that hold coroutine c.
OwnersOf(c) == {o \in owners : handle_[o] = c}

\* C18: every coroutine that exists is held by at most one owning handle; a
\* move construction or a move assignment from another, valid handle leaves
\* the destination holding what the source held and the source holding
\* nothing; resume through a handle that holds nothing returns
\* invalid_coroutine and changes nothing.
C18_OneOwner ==
    [][/\ \A c \in alive' : Cardinality({o \in owners' : handle_'[o] = c}) <= 1
       /\ (/\ call'.op \in {"move", "assign"} /\ call'.own # call'.from
           /\ handle_[call'.from] # NULL)
          => /\ call'.own \in owners'
             /\ handle_'[call'.own] = handle_[call'.from]
             /\ handle_'[call'.from] = NULL
       /\ (call'.op = "resume" /\ call'.own # 0 /\ handle_[call'.own] = NULL)
          => (ret'.res = "invalid_coroutine" /\ UNCHANGED <<coreVars, dataVars>>)]_vars

\* Resume through a moved-from handle has returned invalid_coroutine while
\* the handle moved to holds the coroutine, suspended.
C18_Witness ==
    /\ call.op = "resume" /\ call.own \in owners /\ ret.res = "invalid_coroutine"
    /\ handle_[call.own] = NULL
    /\ \E o \in owners : handle_[o] \in alive /\ state[handle_[o]] = "suspended"

\* C19: every block that was allocated has been released at most once, and
\* so has every function wrapper; a coroutine that no owning handle holds
\* any more has had its block and its function wrapper released.
C19_ReleasedExactlyOnce ==
    \A c \in 1..ncreated :
        /\ freed[c] <= 1 /\ wrapper_freed[c] <= 1
        /\ (co_magic[c] = magic_number /\ OwnersOf(c) = {})
              => (freed[c] = 1 /\ wrapper_freed[c] = 1)

\* The blocks that the allocator gave out and that were not given back.
Retained == {c \in 1..ncreated : freed[c] = 0}

\* C20: coroutine::create with an empty function returns invalid_arguments
\* and allocates nothing; mco_create with a descriptor without entry function
\* or with a stack_size below the minimum returns invalid_arguments with a
\* null output pointer, and the block it allocated has been released.
C20_CreateInvalidArguments ==
    [][/\ call'.op = "coroutine_create"
          => /\ ret'.res = "invalid_arguments" /\ ret'.co = NULL
             /\ ncreated' = ncreated
             /\ UNCHANGED <<coreVars, dataVars, ownVars>>
       /\ (call'.op = "create" /\ (call'.null \/ call'.stack < min_stack_size))
          => /\ ret'.res = "invalid_arguments" /\ ret'.co = NULL
             /\ ncreated' = ncreated + 1 /\ freed'[ncreated'] = 1
             /\ alive' = alive /\ Retained' = Retained
             /\ UNCHANGED ownVars]_vars

\* mco_create was given an entry function and a stack below the minimum;
\* the block it allocated has been released.
C20_Witness ==
    /\ call.op = "create" /\ ~call.null /\ call.stack < min_stack_size
    /\ ret.res = "invalid_arguments" /\ ret.co = NULL
    /\ freed[ncreated] = 1 /\ ncreated \notin alive

\* ------------------------------------------------------------------------
\* The descriptor of coroutine::create and the layout of the block.  Sizes
\* and addresses are std::size_t, of WordBits bits here; the constants of
\* the header keep their values.
\* ------------------------------------------------------------------------
WordBits == 20
WordMod == 2 ^ WordBits
size_max == WordMod - 1

UCORO_STACK_SIZE == 57344
UCORO_MIN_STACK_SIZE == 32768
UCORO_STORAGE_SIZE == 1024
sizeof_mco_coro == 136
sizeof_mco_context == 128
sizeof_size_t == 8
MakectxRedZone == 128

\* (addr + (align - 1)) & ~(align - 1), align a power of two.
mco_align_forward(addr, align) ==
    LET sum == (addr + (align - 1)) % WordMod
    IN  sum - (sum % align)

\* desc->coro_size as mco_init_desc_sizes computes it.
mco_init_desc_sizes(storage_sz, stack_sz) ==
    (mco_align_forward(sizeof_mco_coro, 16)
     + mco_align_forward(sizeof_mco_context, 16)
     + mco_align_forward(storage_sz, 16)
     + stack_sz + 16) % WordMod

mco_desc_init(stack) ==
    LET clamped == IF stack # 0
                   THEN (IF stack < UCORO_MIN_STACK_SIZE
                         THEN UCORO_MIN_STACK_SIZE ELSE stack)
                   ELSE UCORO_STACK_SIZE
        aligned == mco_align_forward(clamped, 16)
    IN  [stack_size |-> aligned,
         storage_size |-> UCORO_STORAGE_SIZE,
         coro_size |-> mco_init_desc_sizes(UCORO_STORAGE_SIZE, aligned)]

\* The descriptor coroutine::create hands to mco_create: with a storage
\* size other than the default it writes storage_size and coro_size again,
\* coro_size from the stack size the caller asked for.
create_desc(stack, storage_sz) ==
    LET d == mco_desc_init(stack)
    IN  IF storage_sz # UCORO_STORAGE_SIZE
        THEN [d EXCEPT !.storage_size = storage_sz,
                       !.coro_size =
                           (mco_align_forward(sizeof_size_t * 17, 16)
                            + mco_align_forward(128, 16)
                            + mco_align_forward(storage_sz, 16)
                            + stack + 16) % WordMod]
        ELSE d

\* The result of mco_init on a block that was allocated, the function of
\* the descriptor not null.
mco_init_desc(d) ==
    IF d.stack_size < UCORO_MIN_STACK_SIZE THEN "invalid_arguments" ELSE "success"

\* The addresses mco_create_context computes in the block at co_addr, and
\* the word mco_makectx writes at the top of the stack.
mco_create_context(co_addr, d) ==
    LET context_addr == mco_align_forward((co_addr + sizeof_mco_coro) % WordMod, 16)
        storage_addr == mco_align_forward((context_addr + sizeof_mco_context) % WordMod, 16)
        stack_addr == mco_align_forward((storage_addr + d.storage_size) % WordMod, 16)
    IN  [context |-> context_addr, storage_at |-> storage_addr,
         stack_base |-> stack_addr,
         high_addr |-> (stack_addr + d.stack_size + WordMod - MakectxRedZone
                        - sizeof_size_t) % WordMod]

\* The stack sizes and storage sizes a caller may ask for, and the
\* addresses calloc may return.
StackSizes ==
    {0, 1, 15, 16, 17, UCORO_MIN_STACK_SIZE - 1, UCORO_MIN_STACK_SIZE,
     UCORO_MIN_STACK_SIZE + 1, UCORO_STACK_SIZE - 8, UCORO_STACK_SIZE,
     UCORO_STACK_SIZE + 1, 2 * UCORO_STACK_SIZE,
     size_max - 16, size_max - 15, size_max - 14, size_max}
StorageSizes == {0, 1, 16, 64, 1000, UCORO_STORAGE_SIZE, 1025, 4096}
CoAddrs == {16, 4096}

DescInput(co_addr, stack, storage_sz) ==
    [DescNone EXCEPT !.op = "input", !.co_addr = co_addr,
                     !.stack = stack, !.storage = storage_sz]

\* coroutine::create(func, stack_size{stack}, storage_size{storage}) with a
\* function that is not empty, calloc returning the block at desc.co_addr.
coroutine_create_desc ==
    /\ desc.op = "input"
    /\ LET d == create_desc(desc.stack, desc.storage)
           res == mco_init_desc(d)
           at == mco_create_context(desc.co_addr, d)
       IN desc' = [desc EXCEPT !.op = "create", !.res = res,
                      !.stack_size = d.stack_size,
                      !.storage_size = d.storage_size,
                      !.coro_size = d.coro_size,
                      !.context = IF res = "success" THEN at.context ELSE 0,
                      !.storage_at = IF res = "success" THEN at.storage_at ELSE 0,
                      !.stack_base = IF res = "success" THEN at.stack_base ELSE 0,
                      !.high_addr = IF res = "success" THEN at.high_addr ELSE 0]
    /\ UNCHANGED <<coreVars, dataVars, ownVars, call, ret,
                   prog, frame, tasks_, current_, log>>

InitDesc ==
    /\ BaseInit
    /\ \E co_addr \in CoAddrs, stack \in StackSizes, storage_sz \in StorageSizes :
          desc = DescInput(co_addr, stack, storage_sz)
    /\ prog = [c \in Coros |-> <<>>]
    /\ frame = FrameIdle
    /\ tasks_ = <<>>
    /\ current_ = <<>>
    /\ log = LogNone

NextDesc == coroutine_create_desc

SpecDesc == InitDesc /\ [][NextDesc]_vars

\* ------------------------------------------------------------------------
\* Properties of the descriptor and the layout
\* ------------------------------------------------------------------------
\* The next multiple of 16 in the integers, where nothing wraps.
RoundUp16(n) == ((n + 15) \div 16) * 16

\* The stack size the documentation promises for a requested size.
EffectiveStack(stack) ==
    IF stack = 0 THEN RoundUp16(UCORO_STACK_SIZE)
    ELSE RoundUp16(IF stack < UCORO_MIN_STACK_SIZE THEN UCORO_MIN_STACK_SIZE ELSE stack)

\* C21: for every requested stack size, coroutine::create does not fail
\* because of it, and the stack size of the descriptor is the default
\* rounded up to 16 when 0 was requested, else the larger of the request
\* and the minimum rounded up to 16: at least 32768 and a multiple of 16.
C21_StackSizeNeverRefused ==
    desc.op = "create" =>
        /\ desc.res = "success"
        /\ desc.stack_size = EffectiveStack(desc.stack)
        /\ desc.stack_size >= UCORO_MIN_STACK_SIZE
        /\ desc.stack_size % 16 = 0

\* C22: for every stack size and storage size create accepts, the block
\* that is allocated reaches the end of the stack laid out in it, and the
\* header, the context, the storage and the stack start at multiples of
\* 16, follow each other without overlap, and lie inside the block.
C22_LayoutInsideBlock ==
    (desc.op = "create" /\ desc.res = "success") =>
        /\ desc.context % 16 = 0
        /\ desc.storage_at % 16 = 0
        /\ desc.stack_base % 16 = 0
        /\ desc.co_addr + sizeof_mco_coro <= desc.context
        /\ desc.context + sizeof_mco_context <= desc.storage_at
        /\ desc.storage_at + desc.storage_size <= desc.stack_base
        /\ desc.stack_base + desc.stack_size <= desc.co_addr + desc.coro_size

\* ------------------------------------------------------------------------
\* The sizes a handle reports, and the calls on a handle that is null
\* ------------------------------------------------------------------------
\* The variant that reads the header without the test.
bytes_stored_of_unchecked(co) == bytes_stored[IF co # NULL THEN co ELSE 1]

\* co ? co->bytes_stored : 0
bytes_stored_of(co) == IF co # NULL THEN bytes_stored[co] ELSE 0

mco_get_bytes_stored(co) ==
    /\ call' = Call("bytes_stored", co, 0, FALSE)
    /\ ret' = Ret("bytes_stored", co, "success", <<bytes_stored_of(co)>>, <<>>)
    /\ UNCHANGED <<coreVars, dataVars>>

mco_get_storage_size(co) ==
    /\ call' = Call("storage_capacity", co, 0, FALSE)
    /\ ret' = Ret("storage_capacity", co, "success",
                  <<IF co # NULL THEN storage_size[co] ELSE 0>>, <<>>)
    /\ UNCHANGED <<coreVars, dataVars>>

StepGet ==
    /\ \/ \E co \in Handles : mco_get_bytes_stored(co)
       \/ \E co \in Handles : mco_get_storage_size(co)
    /\ UNCHANGED <<ownVars, auxVars>>

\* SpecHandle: the coroutine of SpecData and every call a handle offers,
\* on the handle of the coroutine and on a null handle.
NextHandle == StepCtl \/ StepData(CtlLen) \/ StepGet
SpecHandle == InitData /\ [][NextHandle]_vars

\* The calls of a checked operation through a handle.
CheckedOps == {"resume", "yield", "push", "pop", "peek", "status",
               "bytes_stored", "storage_capacity"}

\* C23: a checked operation on a handle that is null (default constructed
\* or moved from) changes nothing; resume, yield, push, pop and peek
\* return invalid_coroutine, bytes_stored and storage_capacity report 0,
\* and the status is dead.
C23_NullHandleRefused ==
    [][(call'.co = NULL /\ call'.op \in CheckedOps) =>
          /\ ret'.op = call'.op
          /\ ret'.res = (IF call'.op = "status" THEN "dead"
                         ELSE IF call'.op \in {"bytes_stored", "storage_capacity"}
                         THEN "success"
                         ELSE "invalid_coroutine")
          /\ call'.op \in {"bytes_stored", "storage_capacity"} => ret'.val = <<0>>
          /\ UNCHANGED <<coreVars, dataVars, ownVars>>]_vars

\* bytes_stored() was asked of a null handle while the coroutine, resumed
\* and suspended again, holds bytes on its byte-stack.
C23_Witness ==
    /\ call.op = "bytes_stored" /\ call.co = NULL
    /\ ret.val = <<0>>
    /\ bytes_stored[1] > 0
    /\ state[1] = "suspended" /\ pc[1] # "start"

\* ------------------------------------------------------------------------
\* generator<T>: the coroutine of SpecData behind a generator whose body
\* follows a program, and a consumer on the thread that calls next() or
\* iterates.  T has sizeof_T bytes.
\* ------------------------------------------------------------------------
MaxProg == 3
MaxNext == 4
sizeof_T == 1
gen_coro == 1

\* What a body does: yield_value(h, v), a bare h.yield(), a call of next()
\* on its own generator; ".yield" is yield_value after its push succeeded.
Instr(op, v) == [op |-> op, v |-> v]
GenInstrs ==
    {Instr("yield_value", v) : v \in Byte} \cup {Instr("yield", 0), Instr("next", 0)}
Programs(instrs, maxlen) == UNION {[1..n -> instrs] : n \in 0..maxlen}

\* T as sizeof_T bytes, and back.
BytesOf(v) == [i \in 1..sizeof_T |-> v]
ValueOf(bytes) == bytes[1]

\* std::expected<std::optional<T>, error>
Value(v) == [kind |-> "value", val |-> v, err |-> "success"]
NoMore == [kind |-> "nomore", val |-> 0, err |-> "success"]
Error(e) == [kind |-> "error", val |-> 0, err |-> e]

\* Variant: an error is reported as the end of the sequence.
next_unexpected_nullopt(e) == NoMore

\* return std::unexpected{e}
next_unexpected(e) == Error(e)

\* Variant: a generator is never found done.
coroutine_done_never(co) == FALSE

\* coroutine::done(): status() == state::dead
coroutine_done(co) == state[co] = "dead"

\* next() returns r to the code on stack `by`; op is "advance" when the
\* call was made by iterator::advance, which then sets current_.
NextReturns(op, by, r) ==
    /\ log' = [log EXCEPT
                 !.ret = <<r>>,
                 !.out = IF by = MAIN /\ op = "next" THEN Append(@, r) ELSE @,
                 !.calls = IF by = MAIN THEN @ + 1 ELSE @,
                 !.visited = IF op = "advance" /\ r.kind = "value"
                             THEN Append(@, r.val) ELSE @]
    /\ current_' = IF op = "advance"
                   THEN (IF r.kind = "value" THEN <<r.val>> ELSE <<>>)
                   ELSE current_

\* generator::next() up to the switch into the body.
generator_next(op) ==
    IF coroutine_done(gen_coro)
    THEN /\ call' = Call("status", gen_coro, 0, FALSE)
         /\ ret' = Ret("status", gen_coro, state[gen_coro], <<>>, <<>>)
         /\ NextReturns(op, exec, NoMore)
         /\ UNCHANGED <<coreVars, dataVars, frame>>
    ELSE /\ mco_resume_from(gen_coro, 0)
         /\ IF resume_allowed(gen_coro)
            THEN /\ frame' = [FrameIdle EXCEPT !.op = op, !.stack = exec]
                 /\ UNCHANGED <<log, current_>>
            ELSE /\ NextReturns(op, exec, next_unexpected("not_suspended"))
                 /\ UNCHANGED frame

\* Variant: next() reads the value and leaves it on the byte-stack.
next_takes_peek(co) == mco_peek(co, sizeof_T, FALSE)

\* auto value_result = coro_.pop<T>()
next_takes(co) == mco_pop(co, sizeof_T, FALSE)

\* generator::next() after resume() returned success to it.
generator_next_resumed ==
    /\ frame.op \in {"next", "advance"}
    /\ exec = frame.stack
    /\ frame' = FrameIdle
    /\ IF coroutine_done(gen_coro)
       THEN /\ call' = Call("status", gen_coro, 0, FALSE)
            /\ ret' = Ret("status", gen_coro, state[gen_coro], <<>>, <<>>)
            /\ NextReturns(frame.op, exec, NoMore)
            /\ UNCHANGED <<coreVars, dataVars>>
       ELSE /\ next_takes(gen_coro)
            /\ NextReturns(frame.op, exec,
                           IF ret'.res = "success" THEN Value(ValueOf(ret'.val))
                           ELSE next_unexpected(ret'.res))
    /\ UNCHANGED <<ownVars, desc, prog, tasks_>>

\* The consumer calls next().
consumer_next ==
    /\ exec = MAIN /\ frame.op = "idle"
    /\ log.mode = "next" /\ log.calls < MaxNext
    /\ generator_next("next")
    /\ UNCHANGED <<ownVars, desc, prog, tasks_>>

\* iterator{gen}: begin().
iterator_begin ==
    /\ exec = MAIN /\ frame.op = "idle"
    /\ log.mode = "iterate" /\ log.calls = 0
    /\ generator_next("advance")
    /\ UNCHANGED <<ownVars, desc, prog, tasks_>>

\* operator++ on an iterator that is not equal to end().
iterator_increment ==
    /\ exec = MAIN /\ frame.op = "idle"
    /\ log.mode = "iterate" /\ log.calls > 0 /\ current_ # <<>>
    /\ generator_next("advance")
    /\ UNCHANGED <<ownVars, desc, prog, tasks_>>

\* The addresses of the locals of a body that stays inside its stack.
FrameAddrs(e) == {a \in LocalAddrs(e) : a >= stack_base(e)}

\* The body of the generator executes its next instruction, or returns.
body_yield_value ==
    /\ exec = gen_coro /\ prog[exec] # <<>> /\ Head(prog[exec]).op = "yield_value"
    /\ mco_push(exec, BytesOf(Head(prog[exec]).v), sizeof_T, FALSE)
    /\ prog' = [prog EXCEPT ![exec] =
                  IF ret'.res = "success"
                  THEN <<Instr("yield_value.yield", 0)>> \o Tail(@)
                  ELSE Tail(@)]
    /\ UNCHANGED <<ownVars, desc, frame, tasks_, current_, log>>

body_yield ==
    /\ exec = gen_coro /\ prog[exec] # <<>>
    /\ Head(prog[exec]).op \in {"yield", "yield_value.yield"}
    /\ \E addr \in FrameAddrs(exec) : mco_yield(exec, addr)
    /\ prog' = [prog EXCEPT ![exec] = Tail(@)]
    /\ UNCHANGED <<ownVars, desc, frame, tasks_, current_, log>>

body_next ==
    /\ exec = gen_coro /\ prog[exec] # <<>> /\ Head(prog[exec]).op = "next"
    /\ generator_next("next")
    /\ prog' = [prog EXCEPT ![exec] = Tail(@)]
    /\ UNCHANGED <<ownVars, desc, tasks_>>

body_return ==
    /\ exec = gen_coro /\ prog[exec] = <<>>
    /\ mco_main_return
    /\ UNCHANGED <<ownVars, auxVars>>

InitGen ==
    /\ BaseInitData
    /\ desc = DescNone
    /\ frame = FrameIdle
    /\ tasks_ = <<>>
    /\ current_ = <<>>
    /\ \E p \in Programs(GenInstrs, MaxProg) : \E mode \in {"next", "iterate"} :
          /\ prog = [c \in Coros |-> IF c = gen_coro THEN p ELSE <<>>]
          /\ log = [LogNone EXCEPT !.mode = mode, !.start = p]

NextGen ==
    \/ consumer_next
    \/ iterator_begin
    \/ iterator_increment
    \/ generator_next_resumed
    \/ body_yield_value
    \/ body_yield
    \/ body_next
    \/ body_return

SpecGen == InitGen /\ [][NextGen]_vars

\* ------------------------------------------------------------------------
\* Properties of generator<T>
\* ------------------------------------------------------------------------
AllYieldValue(p) == \A i \in 1..Len(p) : p[i].op = "yield_value"

\* C24: when the body of a generator calls yield_value with v1..vn and
\* returns, the calls of next() return v1..vn in this order and then
\* 'no more'; 'no more' is returned only by a generator that is done (for
\* n = 0 by the first call), and a call of next() on a generator that is
\* done returns 'no more' without resuming the coroutine.
C24_GeneratorSequence ==
    /\ []((log.mode = "next" /\ AllYieldValue(log.start)) =>
            /\ \A i \in 1..Len(log.out) :
                  log.out[i] = IF i <= Len(log.start)
                               THEN Value(log.start[i].v) ELSE NoMore
            /\ log.ret = <<NoMore>> => state[gen_coro] = "dead")
    /\ [][(log.mode = "next" /\ state[gen_coro] = "dead" /\ log'.calls > log.calls) =>
            /\ log'.ret = <<NoMore>>
            /\ call'.op # "resume"
            /\ UNCHANGED <<coreVars, dataVars>>]_vars

\* The body yielded two different values and returned, and next() was
\* called twice more after the second value.
C24_Witness ==
    /\ log.mode = "next" /\ AllYieldValue(log.start)
    /\ Len(log.start) = 2 /\ log.start[1].v # log.start[2].v
    /\ Len(log.out) = 4
    /\ log.out[4] = NoMore

\* C25: next() returns the error of a resume that failed, leaving the
\* coroutine as it was; when the body suspended without a value of T on
\* the byte-stack, next() returns the error of pop, not_enough_space, and
\* the coroutine stays suspended as the yield left it.
C25_NextPropagatesErrors ==
    [][/\ (call'.op = "resume" /\ ret'.op = "resume" /\ ret'.res # "success") =>
            /\ log'.ret = <<Error(ret'.res)>>
            /\ UNCHANGED <<coreVars, dataVars>>
       /\ (call'.op = "pop" /\ bytes_stored[gen_coro] < sizeof_T) =>
            /\ log'.ret = <<Error("not_enough_space")>>
            /\ state'[gen_coro] = "suspended"
            /\ UNCHANGED <<coreVars, dataVars>>]_vars

\* The consumer got not_enough_space after a bare yield, called next()
\* again, and the body, resumed, called next() on its own generator: that
\* resume failed with not_suspended.
C25_Witness ==
    /\ \E i \in 1..Len(log.out) : log.out[i] = Error("not_enough_space")
    /\ call.op = "resume" /\ call.by = gen_coro
    /\ log.ret = <<Error("not_suspended")>>
    /\ state[gen_coro] = "running"

\* The values the calls of yield_value of a program hand over, in order.
RECURSIVE Yielded(_)
Yielded(p) ==
    IF p = <<>> THEN <<>>
    ELSE IF Head(p).op = "yield_value" THEN <<Head(p).v>> \o Yielded(Tail(p))
    ELSE Yielded(Tail(p))

\* C26: an iteration from begin() to end() visits the values repeated
\* calls of next() return, each once and in order, and the iterator
\* equals end() only when the generator is exhausted, its coroutine dead.
C26_IterationVisitsAll ==
    (log.mode = "iterate" /\ log.calls > 0 /\ frame.op = "idle" /\ exec = MAIN
     /\ current_ = <<>>) =>
        /\ state[gen_coro] = "dead"
        /\ log.visited = Yielded(log.start)

\* ------------------------------------------------------------------------
\* task_runner: NTask coroutines whose bodies follow a program, the thread
\* that holds their owning handles, and one runner.  A body yields up to
\* MaxYield times and returns; the body of the first coroutine may before
\* that move owning handles (its own, those of others) into the runner and
\* then call step().  step() and run() are not entered, and no task is
\* added, while a call of step() or run() is in progress.
\* ------------------------------------------------------------------------
NTask == 2
MaxYield == 2
Tasks == 1..NTask

Range(seq) == {seq[i] : i \in 1..Len(seq)}

Yields(k) == [i \in 1..k |-> Instr("yield", 0)]
TaskPrograms == {Yields(k) : k \in 0..MaxYield}
DriverPrefixes ==
    {<<>>}
    \cup {<<Instr("add", c)>> : c \in Tasks}
    \cup {<<Instr("add", c), Instr("step", 0)>> : c \in Tasks}
    \cup UNION {{<<Instr("add", c), Instr("add", d), Instr("step", 0)>> :
                     d \in Tasks \ {c}} : c \in Tasks}
DriverPrograms == {pre \o p : pre \in DriverPrefixes, p \in TaskPrograms}

\* std::vector::erase: the elements after position i move down by one.
Remove(seq, i) == SubSeq(seq, 1, i - 1) \o SubSeq(seq, i + 1, Len(seq))

\* The tasks of a list that are not dead, in the order of the list.
IsLive(c) == state[c] # "dead"
Live(list) == SelectSeq(list, IsLive)

\* The tasks of a list, the yields their bodies have still to make, and
\* whether they are dead.
IsYield(i) == i.op = "yield"
SnapshotOf(list, pr, st) ==
    [i \in 1..Len(list) |->
        [co |-> list[i], left |-> Len(SelectSeq(pr[list[i]], IsYield)),
         dead |-> st[list[i]] = "dead"]]
Snapshot == SnapshotOf(tasks_, prog, state)

\* Variant: step() reports true whatever is left.
step_result_true(list) == "true"

\* return !tasks_.empty()
step_result(list) == IF list # <<>> THEN "true" ELSE "false"

\* Variant: run() makes one pass.
run_continues_once(list) == FALSE

\* while (!tasks_.empty())
run_continues(list) == list # <<>>

\* Variant: no error is transient.
transient_never(e) == FALSE

\* result.error() == error::not_suspended
transient(e) == e = "not_suspended"

\* Variant: the iterator is advanced after an erase.
erase_next_skips(it) == it + 1

\* it = tasks_.erase(it): the iterator to the element that followed.
erase_next(it) == it

\* Variant: add takes every valid coroutine, dead or not.
add_accepts_valid(c) == c \in alive /\ c \notin Range(tasks_)

\* coro.valid() && !coro.done(); the handle the caller passes is valid when
\* it holds a coroutine, that is while the coroutine is in no list.
add_accepts(c) == c \in alive /\ c \notin Range(tasks_) /\ ~coroutine_done(c)

\* task_runner::add(std::move(coro)) by the code that holds the owning
\* handle of coroutine c; a handle that was moved from is invalid.
task_runner_add(c) ==
    /\ IF add_accepts(c)
       THEN /\ tasks_' = Append(tasks_, c)
            /\ log' = [log EXCEPT !.added = Append(@, c)]
       ELSE UNCHANGED <<tasks_, log>>
    /\ UNCHANGED <<coreVars, dataVars, call, ret, frame>>

\* step() or run() is entered.
task_runner_enter(op) ==
    /\ frame.op = "idle"
    /\ frame' = [op |-> op, stack |-> exec, it |-> 1, phase |-> "check", res |-> "none"]
    /\ log' = [log EXCEPT !.mode = op, !.start = Snapshot, !.calls = 1,
                          !.out = <<>>, !.visited = Live(tasks_), !.resumed = <<>>,
                          !.ret = <<>>]
    /\ UNCHANGED <<coreVars, dataVars, call, ret, tasks_>>

\* step() or run() returns r.
task_runner_return(r) ==
    /\ frame' = FrameIdle
    /\ log' = [log EXCEPT !.ret = <<r>>]

\* tasks_.erase(it): the elements after it are moved down, the coroutine of
\* the element is destroyed.
task_runner_erase ==
    /\ mco_destroy(tasks_[frame.it])
    /\ tasks_' = Remove(tasks_, frame.it)
    /\ frame' = [frame EXCEPT !.it = erase_next(@), !.phase = "check"]
    /\ UNCHANGED log

\* The loop of step() and run() at its head.
task_runner_loop ==
    /\ frame.op \in {"step", "run"} /\ frame.phase = "check"
    /\ exec = frame.stack
    /\ IF frame.it > Len(tasks_)
       THEN /\ IF frame.op = "step"
               THEN /\ task_runner_return(step_result(tasks_))
               ELSE IF ~run_continues(tasks_)
               THEN /\ task_runner_return("success")
               ELSE /\ frame' = [frame EXCEPT !.it = 1]
                    /\ log' = [log EXCEPT !.calls = @ + 1, !.visited = Live(tasks_),
                                          !.resumed = <<>>]
            /\ UNCHANGED <<coreVars, dataVars, call, ret, tasks_>>
       ELSE IF coroutine_done(tasks_[frame.it])
       THEN task_runner_erase
       ELSE /\ mco_resume_from(tasks_[frame.it], 0)
            /\ frame' = [frame EXCEPT !.phase = "resumed",
                            !.res = IF resume_allowed(tasks_[frame.it])
                                    THEN "success" ELSE ret'.res]
            /\ log' = [log EXCEPT !.out = Append(@, tasks_[frame.it]),
                                  !.resumed = Append(@, tasks_[frame.it])]
            /\ UNCHANGED tasks_
    /\ UNCHANGED <<ownVars, desc, prog, current_>>

\* The loop of step() and run() after it->resume() returned.
task_runner_resumed ==
    /\ frame.op \in {"step", "run"} /\ frame.phase = "resumed"
    /\ exec = frame.stack
    /\ IF frame.res # "success" /\ ~transient(frame.res)
       THEN /\ task_runner_return(frame.res)
            /\ UNCHANGED <<coreVars, dataVars, call, ret, tasks_>>
       ELSE IF coroutine_done(tasks_[frame.it])
       THEN task_runner_erase
       ELSE /\ frame' = [frame EXCEPT !.it = @ + 1, !.phase = "check"]
            /\ UNCHANGED <<coreVars, dataVars, call, ret, tasks_, log>>
    /\ UNCHANGED <<ownVars, desc, prog, current_>>

\* The thread, outside the runner: it resumes a coroutine whose owning
\* handle it holds, adds it to the runner, calls step() or run().
InThread == exec = MAIN /\ frame.op = "idle"
Held == alive \ Range(tasks_)

thread_resume ==
    /\ InThread
    /\ \E c \in Held : mco_resume_from(c, 0)
    /\ UNCHANGED <<ownVars, auxVars>>

thread_add ==
    /\ InThread
    /\ \E c \in Held : task_runner_add(c)
    /\ UNCHANGED <<ownVars, desc, prog, current_>>

thread_step ==
    /\ InThread
    /\ task_runner_enter("step")
    /\ UNCHANGED <<ownVars, desc, prog, current_>>

thread_run ==
    /\ InThread
    /\ task_runner_enter("run")
    /\ UNCHANGED <<ownVars, desc, prog, current_>>

\* The body of the coroutine that executes, outside the runner.
InBody == exec # MAIN /\ (frame.op = "idle" \/ frame.stack # exec)

\* Variant: the body starts again from its first statement.
resume_point_restart(c) == Yields(MaxYield)

\* The saved instruction pointer of a body that yields: the statement
\* after the yield.
resume_point(c) == Tail(prog[c])

task_yield ==
    /\ InBody /\ prog[exec] # <<>> /\ Head(prog[exec]).op = "yield"
    /\ \E addr \in FrameAddrs(exec) : mco_yield(exec, addr)
    /\ prog' = [prog EXCEPT ![exec] = resume_point(exec)]
    /\ UNCHANGED <<ownVars, desc, frame, tasks_, current_, log>>

task_add ==
    /\ InBody /\ prog[exec] # <<>> /\ Head(prog[exec]).op = "add"
    /\ frame.op = "idle" \/ Head(prog[exec]).v \notin Held
    /\ task_runner_add(Head(prog[exec]).v)
    /\ prog' = [prog EXCEPT ![exec] = Tail(@)]
    /\ UNCHANGED <<ownVars, desc, current_>>

task_step ==
    /\ InBody /\ prog[exec] # <<>> /\ Head(prog[exec]).op = "step"
    /\ task_runner_enter("step")
    /\ prog' = [prog EXCEPT ![exec] = Tail(@)]
    /\ UNCHANGED <<ownVars, desc, current_>>

task_return ==
    /\ InBody /\ prog[exec] = <<>>
    /\ mco_main_return
    /\ UNCHANGED <<ownVars, auxVars>>

\* NTask coroutines were created; nothing else happened.
BaseInitRun ==
    /\ alive = Tasks
    /\ ncreated = NTask
    /\ state = [c \in Coros |-> IF c \in Tasks THEN mco_init_state ELSE "dead"]
    /\ prev_co = [c \in Coros |-> NULL]
    /\ co_magic = [c \in Coros |-> IF c \in Tasks THEN magic_number ELSE 0]
    /\ storage = [c \in Coros |-> IF c \in Tasks THEN [i \in 0..(CtlStorage - 1) |-> 0] ELSE <<>>]
    /\ bytes_stored = [c \in Coros |-> 0]
    /\ storage_size = [c \in Coros |-> IF c \in Tasks THEN CtlStorage ELSE 0]
    /\ ctx = [c \in Coros |-> c]
    /\ back_ctx = [c \in Coros |-> MAIN]
    /\ mco_current_co = NULL
    /\ exec = MAIN
    /\ pc = [s \in Stacks |-> IF s = MAIN THEN "body" ELSE IF s \in Tasks THEN "start" ELSE "none"]
    /\ arg = [s \in Stacks |-> IF s \in Tasks THEN s ELSE NULL]
    /\ call = [op |-> "create", co |-> NULL, len |-> CtlStorage, null |-> FALSE,
               by |-> MAIN, own |-> 0, from |-> 0, stack |-> StackSize, addr |-> 0]
    /\ ret = Ret("create", NTask, "success", <<>>, <<>>)
    /\ lifo = [c \in Coros |-> <<>>]
    /\ freed = [c \in Coros |-> 0]
    /\ owners = {}
    /\ handle_ = [o \in Owners |-> NULL]
    /\ func_wrapper_ = [o \in Owners |-> NULL]
    /\ wrapper_freed = [c \in Coros |-> 0]
    /\ desc = DescNone
    /\ frame = FrameIdle
    /\ tasks_ = <<>>
    /\ current_ = <<>>

InitRun ==
    /\ BaseInitRun
    /\ log = LogNone
    /\ \E driver \in DriverPrograms : \E others \in [Tasks \ {1} -> TaskPrograms] :
          prog = [c \in Coros |-> IF c = 1 THEN driver
                                  ELSE IF c \in Tasks THEN others[c] ELSE <<>>]

NextRun ==
    \/ thread_resume
    \/ thread_add
    \/ thread_step
    \/ thread_run
    \/ task_runner_loop
    \/ task_runner_resumed
    \/ task_yield
    \/ task_add
    \/ task_step
    \/ task_return

SpecRun == InitRun /\ [][NextRun]_vars

\* SpecRunLive: the thread and the bodies take the steps they can take.
SpecRunLive == InitRun /\ [][NextRun]_vars /\ WF_vars(NextRun)

\* ------------------------------------------------------------------------
\* Properties of task_runner
\* ------------------------------------------------------------------------
\* A call of step() or run() returns in this step.
Returns(op) == frame.op = op /\ frame'.op = "idle"

\* The coroutines of a snapshot, and those that were not dead.
SnapCos(snap) == [i \in 1..Len(snap) |-> snap[i].co]
NotDead(s) == ~s.dead
SnapLive(snap) == SnapCos(SelectSeq(snap, NotDead))

\* C27: a call of step() calls resume once on every task that was not
\* dead when the call began, in the order of the list, removes the tasks
\* that are dead and no other, and returns true exactly when the list is
\* not empty afterwards; no task that remains is dead or invalid.
C27_StepResumesEachOnce ==
    [][Returns("step") =>
          /\ log'.out = SnapLive(log.start)
          /\ tasks_' = Live(SnapCos(log.start))'
          /\ \A c \in Range(SnapCos(log.start)) \ Range(tasks_') : c \notin alive'
          /\ \A c \in Range(tasks_') : c \in alive' /\ state'[c] # "dead"
          /\ log'.ret \in {<<"true">>, <<"false">>}
          /\ log'.ret = <<"true">> <=> tasks_' # <<>>]_vars

\* step() returned true: of the two tasks it resumed, in their order, the
\* first returned and was removed, the second yielded and remains.
C27_Witness ==
    /\ frame.op = "idle" /\ log.mode = "step" /\ log.ret = <<"true">>
    /\ Len(log.start) = 2
    /\ log.out = SnapCos(log.start)
    /\ tasks_ = <<log.start[2].co>>
    /\ log.start[1].co \notin alive
    /\ state[log.start[2].co] = "suspended"

\* a is a sequence without repetition of elements of b, in the order of b.
Pos(b, x) == CHOOSE i \in 1..Len(b) : b[i] = x
InOrderOf(a, b) ==
    /\ Range(a) \subseteq Range(b)
    /\ \A i, j \in 1..Len(a) : i < j => Pos(b, a[i]) < Pos(b, a[j])

\* C28: during run() the list keeps the order of insertion, and in every
\* pass resume is called on the tasks that were live when the pass began,
\* in that order, each once: the tasks already resumed followed by the
\* live tasks the iterator has still to visit are the tasks of the pass,
\* whatever was erased.
C28_RoundRobin ==
    frame.op = "run" =>
        /\ InOrderOf(tasks_, log.added)
        /\ InOrderOf(log.visited, log.added)
        /\ log.visited =
              log.resumed \o
              Live(SubSeq(tasks_, IF frame.phase = "check" THEN frame.it ELSE frame.it + 1,
                          Len(tasks_)))

\* run() is in its second pass: the first of the two tasks returned in the
\* first pass and was erased, the second was resumed after it and is
\* being resumed again.
C28_Witness ==
    /\ frame.op = "run" /\ log.calls = 2
    /\ Len(log.start) = 2
    /\ Len(tasks_) = 1 /\ tasks_[1] = log.start[2].co
    /\ log.out = <<log.start[1].co, log.start[2].co, log.start[2].co>>
    /\ exec = tasks_[1]

\* One call of step() on a snapshot: the calls of resume it makes and the
\* list it leaves.
StepResumes(snap) == SnapLive(snap)
Survives(s) == ~s.dead /\ s.left > 0
Yielded1(snap) ==
    LET kept == SelectSeq(snap, Survives)
    IN  [i \in 1..Len(kept) |-> [kept[i] EXCEPT !.left = @ - 1]]

\* The calls of resume made by step() called until it returns false.
RECURSIVE StepsUntilFalse(_)
StepsUntilFalse(snap) ==
    IF snap = <<>> THEN <<>>
    ELSE StepResumes(snap) \o StepsUntilFalse(Yielded1(snap))

\* The bodies of the listed tasks yield and return, nothing else.
YieldOnly == \A c \in Range(tasks_) : \A i \in 1..Len(prog[c]) : prog[c][i].op = "yield"

\* C29: run() called when every listed task yields finitely often and
\* returns, terminates; it returns success with the list empty and every
\* task run to completion (at once when the list was empty), having made
\* the calls of resume that step() called until it returns false makes.
C29_RunTerminates ==
    /\ (frame.op = "run" /\ YieldOnly) ~>
          (frame.op = "idle" /\ log.mode = "run" /\ log.ret = <<"success">>
           /\ tasks_ = <<>>)
    /\ [][Returns("run") =>
            /\ log'.ret = <<"success">>
            /\ tasks_' = <<>>
            /\ \A c \in Range(SnapCos(log.start)) : c \notin alive' /\ prog'[c] = <<>>
            /\ log'.out = StepsUntilFalse(log.start)]_vars
    /\ [][(Returns("step") /\ frame.stack = MAIN) =>
            /\ log'.out = StepResumes(log.start)
            /\ SnapshotOf(tasks_', prog', state') = Yielded1(log.start)]_vars

\* run() returned success after three passes over two tasks, the second
\* of which yielded more often than the first.
C29_Witness ==
    /\ frame.op = "idle" /\ log.mode = "run" /\ log.ret = <<"success">>
    /\ tasks_ = <<>>
    /\ Len(log.start) = 2 /\ log.calls = 3
    /\ log.out = <<log.start[1].co, log.start[2].co, log.start[1].co,
                   log.start[2].co, log.start[2].co>>

loop_resume(c) ==
    /\ InThread
    /\ c \in alive /\ ~coroutine_done(c)
    /\ mco_resume_from(c, 0)
    /\ log' = [log EXCEPT !.out = Append(@, c)]
    /\ UNCHANGED <<ownVars, desc, prog, frame, tasks_, current_>>

InitLoop ==
    /\ BaseInitRun
    /\ \E ps \in [Tasks -> TaskPrograms] :
          /\ prog = [c \in Coros |-> IF c \in Tasks THEN ps[c] ELSE <<>>]
          /\ log = [LogNone EXCEPT !.mode = "loop", !.start = [c \in Tasks |-> ps[c]]]

NextLoop ==
    \/ \E c \in Tasks : loop_resume(c)
    \/ task_yield
    \/ task_return

SpecLoop == InitLoop /\ [][NextLoop]_vars

\* How often resume was called on c.
Resumes(c) == Len(SelectSeq(log.out, LAMBDA x : x = c))

\* C31: a body that yields k times and returns is finished by exactly
\* k + 1 resumes: after each of the first k the coroutine is suspended and
\* its body stands after the yield it reached, having run one more
\* stretch up to a yield and never again a stretch it ran before; after
\* resume k + 1 it is dead; every resume returns success.
C31_ResumesToFinish ==
    /\ [](\A c \in Tasks :
            LET k == Len(log.start[c])
                n == Resumes(c)
            IN  /\ n <= k + 1
                /\ exec = MAIN =>
                      /\ Len(prog[c]) = IF n <= k THEN k - n ELSE 0
                      /\ state[c] = IF n <= k THEN "suspended" ELSE "dead"
                /\ exec = c => Len(prog[c]) = k - (n - 1))
    /\ [][(call.op = "resume" /\ exec' = MAIN /\ exec # MAIN) =>
            (ret'.op = "resume" /\ ret'.res = "success")]_vars

\* A body with two yields was resumed three times and is dead.
C31_Witness ==
    /\ exec = MAIN
    /\ \E c \in Tasks :
          /\ Len(log.start[c]) = 2 /\ Resumes(c) = 3
          /\ state[c] = "dead"
          /\ ret.op = "resume" /\ ret.co = c /\ ret.res = "success"

\* The calls that are not resume, yield or destroy.
QueryOps == {"push", "pop", "peek", "status", "bytes_stored", "storage_capacity",
             "running"}

\* C32: push, pop, peek, status (done, suspended), the two sizes and
\* running change no state of a coroutine, no previous link and not the
\* current pointer, and switch no context; control leaves a body only by
\* its yield or by the return of its entry function (or, for the time of
\* a nested resume, into the coroutine it resumes).
C32_OnlyYieldAndReturnSwitch ==
    [][/\ call'.op \in QueryOps =>
            UNCHANGED <<state, prev_co, mco_current_co, exec, pc, arg, ctx, back_ctx>>
       /\ (exec # MAIN /\ exec' # exec) =>
            \/ call'.op \in {"yield", "return"} /\ call'.co = exec
            \/ call'.op = "resume" /\ exec' = call'.co /\ state'[exec] = "normal"]_vars

\* The running body pushed onto its full byte-stack: the push was refused
\* and the body keeps the control.
C32_Witness ==
    /\ exec = 1 /\ state[1] = "running" /\ mco_current_co = 1
    /\ call.op = "push" /\ call.co = 1 /\ call.by = 1
    /\ ret.res = "not_enough_space"
    /\ bytes_stored[1] = storage_size[1]


\* ------------------------------------------------------------------------
\* SpecCreate: up to NCoro coroutines created with byte-stacks of every
\* size up to CtlStorage, by the thread's code and by running bodies, that
\* are resumed, yield, return and are pushed to.
\* ------------------------------------------------------------------------
NextCreate ==
    \/ \E size \in 0..CtlStorage :
          ncreated < NCoro /\ mco_create(TRUE, StackSize, size) /\ UNCHANGED <<ownVars, auxVars>>
    \/ \E co \in alive : mco_resume(co) /\ UNCHANGED <<ownVars, auxVars>>
    \/ /\ exec # MAIN
       /\ \E addr \in LocalAddrs(exec) : mco_yield(mco_current_co, addr)
       /\ UNCHANGED <<ownVars, auxVars>>
    \/ mco_main_return /\ UNCHANGED <<ownVars, auxVars>>
    \/ \E co \in alive : \E src \in Buffers(CtlLen) :
          mco_push(co, src, Len(src), FALSE) /\ UNCHANGED <<ownVars, auxVars>>
SpecCreate == Init /\ [][NextCreate]_vars

Path(p) ==
    /\ log' = [log EXCEPT !.mode = p]
    /\ UNCHANGED <<ownVars, desc, prog, frame, tasks_, current_>>

\* handle_->state = mco_state::running
resume_unchecked_state(co) == [state EXCEPT ![co] = "running"]

resume_unchecked(co) ==
    /\ state[co] = "suspended"
    /\ call' = Call("resume", co, 0, FALSE)
    /\ state' = mco_prepare_jumpin_state(resume_unchecked_state(co), co)
    /\ prev_co' = mco_prepare_jumpin_prev(co)
    /\ mco_current_co' = mco_prepare_jumpin_current(co)
    /\ back_ctx' = [back_ctx EXCEPT ![co] = exec]
    /\ Arrive(ctx[co], "resume", co)
    /\ UNCHANGED <<alive, ncreated, co_magic, ctx, freed, dataVars>>

yield_unchecked(co, addr) ==
    /\ exec # MAIN /\ co = mco_current_co
    /\ call' = [Call("yield", co, 0, FALSE) EXCEPT !.addr = addr]
    /\ state' = mco_prepare_jumpout_state([state EXCEPT ![co] = "suspended"], co)
    /\ prev_co' = mco_prepare_jumpout_prev(co)
    /\ mco_current_co' = mco_prepare_jumpout_current(co)
    /\ ctx' = [ctx EXCEPT ![co] = exec]
    /\ Arrive(back_ctx[co], "yield", co)
    /\ UNCHANGED <<alive, ncreated, co_magic, back_ctx, freed, dataVars>>

push_unchecked(co, value) ==
    /\ bytes_stored[co] + sizeof_T <= storage_size[co]
    /\ call' = Call("push", co, sizeof_T, FALSE)
    /\ storage' = [storage EXCEPT ![co] = memcpy_in(@, bytes_stored[co], value, sizeof_T)]
    /\ bytes_stored' = [bytes_stored EXCEPT ![co] = @ + sizeof_T]
    /\ lifo' = [lifo EXCEPT ![co] = Append(@, value)]
    /\ ret' = Ret("push", co, "success", value, Stored(co))
    /\ UNCHANGED <<coreVars, storage_size>>

\* Variant: the value is read at the bottom of the storage.
pop_unchecked_at_bottom(co) == 0

\* Where pop_unchecked reads: at the cursor it has just moved down.
pop_unchecked_at(co) == bytes_stored[co] - sizeof_T

pop_unchecked(co) ==
    /\ sizeof_T <= bytes_stored[co]
    /\ call' = Call("pop", co, sizeof_T, FALSE)
    /\ bytes_stored' = [bytes_stored EXCEPT ![co] = @ - sizeof_T]
    /\ lifo' = [lifo EXCEPT ![co] = LifoAfterPop(@, sizeof_T)]
    /\ ret' = Ret("pop", co, "success",
                  memcpy_out(storage[co], pop_unchecked_at(co), sizeof_T),
                  JustPushed(co))
    /\ UNCHANGED <<coreVars, storage, storage_size>>

Values == {BytesOf(v) : v \in Byte}

\* SpecUnchecked: up to NCoro coroutines with room for two values, resumed
\* (also from bodies), yielding, pushed to and popped from through the
\* checked and the unchecked API in any mix.
NextUnchecked ==
    \/ ncreated < NCoro /\ mco_create(TRUE, StackSize, 2 * sizeof_T) /\ Path("checked")
    \/ \E co \in alive : mco_resume(co) /\ Path("checked")
    \/ /\ exec # MAIN
       /\ \E addr \in LocalAddrs(exec) : mco_yield(mco_current_co, addr)
       /\ Path("checked")
    \/ mco_main_return /\ Path("checked")
    \/ \E co \in alive : \E value \in Values :
          mco_push(co, value, sizeof_T, FALSE) /\ Path("checked")
    \/ \E co \in alive : mco_pop(co, sizeof_T, FALSE) /\ Path("checked")
    \/ \E co \in alive : resume_unchecked(co) /\ Path("unchecked")
    \/ \E addr \in LocalAddrs(exec) :
          yield_unchecked(mco_current_co, addr) /\ Path("unchecked")
    \/ \E co \in alive : \E value \in Values :
          push_unchecked(co, value) /\ Path("unchecked")
    \/ \E co \in alive : pop_unchecked(co) /\ Path("unchecked")
SpecUnchecked == Init /\ [][NextUnchecked]_vars

\* C34: a call of the unchecked API made where the checked operation would
\* succeed is a step of the checked operation: the same states, previous
\* links, current pointer, executing stack, saved contexts, byte-stack
\* content and cursor, and the same popped value.
C34_UncheckedAsChecked ==
    [][log'.mode = "unchecked" =>
          LET co == call'.co IN
          CASE call'.op = "resume" ->
                  state[co] = "suspended" => mco_resume(co)
            [] call'.op = "yield" ->
                  (state[co] = "running" /\ ~StackCheckFails(co, call'.addr))
                     => mco_yield(co, call'.addr)
            [] call'.op = "push" ->
                  bytes_stored[co] + sizeof_T <= storage_size[co]
                     => \E value \in Values : mco_push(co, value, sizeof_T, FALSE)
            [] call'.op = "pop" ->
                  sizeof_T <= bytes_stored[co] => mco_pop(co, sizeof_T, FALSE)
            [] OTHER -> FALSE]_vars

\* A body that another body resumed pops, unchecked, the value that was
\* pushed for it while it was suspended.
C34_Witness ==
    /\ log.mode = "unchecked"
    /\ call.op = "pop" /\ call.co = 2 /\ call.by = 2
    /\ ret.val = BytesOf(MaxByte)
    /\ state[2] = "running" /\ prev_co[2] = 1 /\ state[1] = "normal"
    /\ mco_current_co = 2 /\ bytes_stored[2] = 0

\* ------------------------------------------------------------------------
\* Creation when the allocator may return nothing.  got: desc->alloc_cb
\* returned a block; gotw: new (std::nothrow) returned a function wrapper.
\* A creation that obtained memory uses up the next number, which names the
\* wrapper and the block of that creation.  log.mode records what the
\* allocator did in the last creation.
\* ------------------------------------------------------------------------
Alloc(p) ==
    /\ log' = [log EXCEPT !.mode = p]
    /\ UNCHANGED <<desc, prog, frame, tasks_, current_>>

mco_create_alloc(func, stack, size, got) ==
    IF got
    THEN mco_create(func, stack, size)
    ELSE /\ call' = [Call("create", NULL, size, ~func) EXCEPT !.stack = stack]
         /\ ret' = Ret("create", NULL, "out_of_memory", <<>>, <<>>)
         /\ UNCHANGED <<coreVars, dataVars>>

\* Variant: the wrapper is not deleted when mco_create fails.
delete_wrapper_leaked(w) == wrapper_freed

\* delete wrapper
delete_wrapper(w) == [wrapper_freed EXCEPT ![w] = @ + 1]

coroutine_create_alloc(o, func, size, gotw, got) ==
    IF ~func \/ (gotw /\ got)
    THEN coroutine_create(o, func, size)
    ELSE /\ o \notin owners
         /\ call' = [Call("coroutine_create", NULL, size, FALSE) EXCEPT !.own = o]
         /\ ret' = Ret("coroutine_create", NULL, "out_of_memory", <<>>, <<>>)
         /\ IF ~gotw
            THEN UNCHANGED <<coreVars, dataVars, ownVars>>
            ELSE /\ ncreated' = ncreated + 1
                 /\ wrapper_freed' = delete_wrapper(ncreated + 1)
                 /\ UNCHANGED <<alive, state, prev_co, co_magic, ctx, back_ctx,
                                mco_current_co, exec, pc, arg, freed, dataVars,
                                owners, handle_, func_wrapper_>>

AllocOutcome(func, gotw, got) ==
    IF ~func THEN "none"
    ELSE IF ~gotw THEN "no_wrapper"
    ELSE IF ~got THEN "no_block"
    ELSE "allocated"

\* SpecAlloc: as SpecOwn, with an allocator that may fail and with pushes
\* and pops of one value.
NextAlloc ==
    \/ \E o \in Owners : \E func, gotw, got \in BOOLEAN :
          /\ ncreated < NOwn
          /\ coroutine_create_alloc(o, func, CtlStorage, gotw, got)
          /\ Alloc(AllocOutcome(func, gotw, got))
    \/ \E d \in BadDescs \cup {<<TRUE, StackSize>>} : \E got \in BOOLEAN :
          /\ ncreated < NOwn
          /\ mco_create_alloc(d[1], d[2], CtlStorage, got)
          /\ Alloc(AllocOutcome(TRUE, TRUE, got))
          /\ UNCHANGED ownVars
    \/ \E o, other \in Owners : coroutine_move(o, other) /\ UNCHANGED auxVars
    \/ \E o, other \in Owners : coroutine_assign(o, other) /\ UNCHANGED auxVars
    \/ \E o \in Owners : coroutine_drop(o) /\ UNCHANGED auxVars
    \/ \E o \in Owners : coroutine_resume(o) /\ UNCHANGED auxVars
    \/ /\ exec # MAIN
       /\ \E addr \in LocalAddrs(exec) : mco_yield(mco_current_co, addr)
       /\ UNCHANGED <<ownVars, auxVars>>
    \/ mco_main_return /\ UNCHANGED <<ownVars, auxVars>>
    \/ /\ \E co \in alive :
             \/ mco_push(co, BytesOf(MaxByte), sizeof_T, FALSE)
             \/ mco_pop(co, sizeof_T, FALSE)
       /\ UNCHANGED <<ownVars, auxVars>>
SpecAlloc == Init /\ [][NextAlloc]_vars

CreateOps == {"create", "coroutine_create"}

\* C35: a creation in which the allocator returned nothing returns
\* out_of_memory with a null handle, makes no coroutine and no owning
\* handle, and the function wrapper it had allocated is deleted; nothing but
\* a creation whose allocation failed returns out_of_memory.
C35_OutOfMemory ==
    [][/\ (call'.op \in CreateOps /\ log'.mode \in {"no_wrapper", "no_block"}) =>
             /\ ret'.res = "out_of_memory" /\ ret'.co = NULL
             /\ alive' = alive /\ freed' = freed
             /\ owners' = owners /\ handle_' = handle_
             /\ func_wrapper_' = func_wrapper_
             /\ \A c \in (ncreated + 1)..ncreated' : wrapper_freed'[c] = 1
             /\ UNCHANGED <<state, prev_co, mco_current_co, exec, dataVars>>
       /\ ret'.res = "out_of_memory" =>
             (call'.op \in CreateOps /\ log'.mode \in {"no_wrapper", "no_block"})]_vars

\* coroutine::create got its function wrapper and no block, while another
\* coroutine is held: the wrapper is deleted and nothing is held for it.
C35_Witness ==
    /\ call.op = "coroutine_create" /\ ret.res = "out_of_memory"
    /\ log.mode = "no_block"
    /\ ncreated = 2 /\ wrapper_freed[2] = 1 /\ freed[2] = 0 /\ alive = {1}
    /\ \A o \in Owners : handle_[o] # 2 /\ func_wrapper_[o] # 2

\* ------------------------------------------------------------------------
\* C36
\* ------------------------------------------------------------------------
\* The body that executes makes the call add(c) written next in its program.
BodyAdds(c) ==
    /\ exec # MAIN /\ prog[exec] # <<>>
    /\ Head(prog[exec]) = Instr("add", c)
    /\ prog'[exec] = Tail(prog[exec])

\* C36: add(c) appends c at the end of the list, and the coroutine leaves
\* the caller's hands, exactly when the caller's handle holds c and c is not
\* dead; otherwise the list and what the caller holds stay as they are; the
\* list grows by nothing but a held coroutine that is not dead, at its end.
C36_AddTakesLive ==
    [][/\ \A c \in Tasks : BodyAdds(c) =>
             IF c \in Held /\ state[c] # "dead"
             THEN tasks_' = Append(tasks_, c) /\ Held' = Held \ {c}
             ELSE tasks_' = tasks_ /\ Held' = Held
       /\ Len(tasks_') > Len(tasks_) =>
             \E c \in Held : state[c] # "dead" /\ tasks_' = Append(tasks_, c)
       /\ (tasks_' = tasks_ /\ alive' = alive) => Held' = Held]_vars

\* A body has added a coroutine after one that the thread added, and found
\* a dead coroutine and one already in the list refused before.
C36_Witness ==
    /\ exec = 1 /\ state[1] = "running"
    /\ Len(tasks_) = 2 /\ tasks_[2] = 2 /\ log.added = tasks_
    /\ state[2] = "suspended" /\ 2 \notin Held

\* ------------------------------------------------------------------------
\* mco_push with lengths of the whole range of std::size_t (scaled to
\* WordBits bits).  Where bytes_stored + len does not leave the range the
\* sum is exact and the call is mco_push above; where it does, the sum that
\* the code compares with storage_size is the wrapped one.
\* ------------------------------------------------------------------------
\* std::size_t bytes_stored = co->bytes_stored + len
push_sum(co, len) == (bytes_stored[co] + len) % WordMod

\* memcpy(&co->storage[co->bytes_stored], src, len) with a length that
\* reaches beyond the storage (and beyond the block): the process faults
\* inside memcpy, or the call returns with the bytes of the storage from the
\* cursor on overwritten and the wrapped sum as cursor.
memcpy_overrun(co, len) ==
    \/ /\ ret' = Ret("push", co, "fault", <<>>, <<>>)
       /\ UNCHANGED <<coreVars, dataVars>>
    \/ /\ \E mem \in [0..(storage_size[co] - 1) -> Byte] :
             /\ \A i \in 0..(bytes_stored[co] - 1) : mem[i] = storage[co][i]
             /\ storage' = [storage EXCEPT ![co] = mem]
       /\ bytes_stored' = [bytes_stored EXCEPT ![co] = push_sum(co, len)]
       /\ lifo' = [lifo EXCEPT ![co] = <<>>]
       /\ ret' = Ret("push", co, "success", <<>>, Stored(co))
       /\ UNCHANGED <<coreVars, storage_size>>

mco_push_word(co, src, len, srcnull) ==
    IF bytes_stored[co] + len < WordMod
    THEN mco_push(co, src, len, srcnull)
    ELSE /\ call' = Call("push", co, len, srcnull)
         /\ IF push_sum(co, len) > storage_size[co]
            THEN push_refused(co)
            ELSE IF srcnull
            THEN /\ ret' = Ret("push", co, "invalid_pointer", <<>>, <<>>)
                 /\ UNCHANGED <<coreVars, dataVars>>
            ELSE memcpy_overrun(co, len)

\* The lengths at the top of the range.
WordLens == {WordMod - k : k \in 1..MaxStorage}

\* SpecWord: the byte-stack of one coroutine with MaxStorage bytes; pushes of
\* short buffers and of lengths at the top of the range, pops.
NextWord ==
    \/ /\ \E src \in Buffers(CtlLen) : \E srcnull \in BOOLEAN :
             mco_push_word(1, src, Len(src), srcnull)
       /\ UNCHANGED <<ownVars, auxVars>>
    \/ /\ \E len \in WordLens : \E srcnull \in BOOLEAN :
             mco_push_word(1, <<>>, len, srcnull)
       /\ UNCHANGED <<ownVars, auxVars>>
    \/ /\ \E len \in 0..CtlLen : mco_pop(1, len, FALSE)
       /\ UNCHANGED <<ownVars, auxVars>>
SpecWord == InitData /\ [][NextWord]_vars

\* C37: a push of len > 0 bytes with bytes_stored + len, as a number, above
\* the capacity returns not_enough_space and leaves the storage and the
\* cursor as they are.
C37_PushCheckSound ==
    [][(call'.op = "push" /\ call'.co # NULL /\ call'.len > 0
           /\ bytes_stored[call'.co] + call'.len > storage_size[call'.co]) =>
          /\ ret'.res = "not_enough_space"
          /\ UNCHANGED <<storage, bytes_stored>>]_vars

\* ------------------------------------------------------------------------
\* SpecReent: the task runner with nothing held back.  A body may call
\* add, step and run while a call of step or run is waiting in it->resume()
\* (frame.outer: the waiting calls, innermost first), and its yield may
\* fail (a frame address below the stack).
\*
\* frame.inv says what happened to the iterator of a call while it waited:
\*   "valid"    nothing;
\*   "shifted"  an erase at or before its position (tasks_.erase
\*              invalidates it): a build with checked iterators stops, any
\*              other keeps the pointer, which now refers to the element
\*              that followed, or to nothing;
\*   "dangling" a push_back that reallocated: it points into the freed
\*              buffer.
\* The use of an iterator that refers to no element is undefined: the
\* process faults (frame.op = "fault", nothing executes any more), or the
\* slot reads as a moved-from coroutine (null handle, so done()) and
\* erase(it) ends the lifetime of the last element of the list.
\* log.leaked: coroutines whose owning handle was destroyed while they
\* could not be destroyed (running or normal); nothing holds them, their
\* bodies run on.  Every task has a body of up to MaxYield statements.
\* ------------------------------------------------------------------------
ReentInstrs ==
    {Instr("yield", 0), Instr("step", 0), Instr("run", 0)}
    \cup {Instr("add", c) : c \in Tasks}

Running == frame.op # "fault"
ReentHeld == Held \ log.leaked

Waiting(f) == [f EXCEPT !.outer = <<>>]

\* Every iterator at or after position q is invalidated.
Shifted(frames, q) ==
    [i \in 1..Len(frames) |->
        IF frames[i].it >= q /\ frames[i].inv = "valid"
        THEN [frames[i] EXCEPT !.inv = "shifted"] ELSE frames[i]]

Dangling(frames) == [i \in 1..Len(frames) |-> [frames[i] EXCEPT !.inv = "dangling"]]

reent_enter(op) ==
    /\ frame' = [op |-> op, stack |-> exec, it |-> 1, phase |-> "check",
                 res |-> "none", inv |-> "valid",
                 outer |-> IF frame.op = "idle" THEN <<>>
                           ELSE <<Waiting(frame)>> \o frame.outer]
    /\ UNCHANGED <<coreVars, dataVars, call, ret, tasks_, log>>

\* step() or run() returns r to the code that called it.
reent_return(r) ==
    /\ frame' = IF frame.outer = <<>> THEN FrameIdle
                ELSE [Head(frame.outer) EXCEPT !.outer = Tail(frame.outer)]
    /\ log' = [log EXCEPT !.ret = <<r>>]

reent_fault ==
    /\ frame' = [frame EXCEPT !.op = "fault"]
    /\ UNCHANGED <<coreVars, dataVars, call, ret, tasks_, log>>

\* it refers to no element.
reent_wild ==
    \/ reent_fault
    \/ /\ tasks_ # <<>>
       /\ LET c == tasks_[Len(tasks_)] IN
          /\ mco_destroy(c)
          /\ tasks_' = Front(tasks_)
          /\ frame' = [frame EXCEPT !.phase = "check",
                                    !.outer = Shifted(@, Len(tasks_))]
          /\ log' = [log EXCEPT !.leaked =
                        IF mco_uninit_allowed(c) THEN @ ELSE @ \cup {c}]

\* it = tasks_.erase(it) where it refers to an element, which is dead.
reent_erase ==
    /\ mco_destroy(tasks_[frame.it])
    /\ tasks_' = Remove(tasks_, frame.it)
    /\ frame' = [frame EXCEPT !.it = erase_next(@), !.phase = "check",
                              !.outer = Shifted(@, frame.it)]
    /\ UNCHANGED log

\* Variant: the loop does not look at done() before it resumes.
loop_done_first_skipped(c) == FALSE

\* if (it->done()) at the head of the loop body
loop_done_first(c) == coroutine_done(c)

\* The loop of step() and run() at its head.
reent_loop ==
    /\ Running /\ frame.op \in {"step", "run"} /\ frame.phase = "check"
    /\ exec = frame.stack
    /\ IF frame.inv = "dangling" \/ frame.it > Len(tasks_) + 1
       THEN reent_wild
       ELSE IF frame.it = Len(tasks_) + 1
       THEN /\ IF frame.op = "step"
               THEN reent_return(step_result(tasks_))
               ELSE IF ~run_continues(tasks_)
               THEN reent_return("success")
               ELSE /\ frame' = [frame EXCEPT !.it = 1, !.inv = "valid"]
                    /\ UNCHANGED log
            /\ UNCHANGED <<coreVars, dataVars, call, ret, tasks_>>
       ELSE \/ frame.inv = "shifted" /\ reent_fault
            \/ IF loop_done_first(tasks_[frame.it])
               THEN reent_erase
               ELSE /\ mco_resume_from(tasks_[frame.it], 0)
                    /\ frame' = [frame EXCEPT !.phase = "resumed",
                                    !.res = IF resume_allowed(tasks_[frame.it])
                                            THEN "success" ELSE ret'.res]
                    /\ log' = [log EXCEPT !.out = <<tasks_[frame.it]>>]
                    /\ UNCHANGED tasks_
    /\ UNCHANGED <<ownVars, desc, prog, current_>>

\* The loop of step() and run() after it->resume() returned.
reent_resumed ==
    /\ Running /\ frame.op \in {"step", "run"} /\ frame.phase = "resumed"
    /\ exec = frame.stack
    /\ IF frame.res # "success" /\ ~transient(frame.res)
       THEN /\ reent_return(frame.res)
            /\ UNCHANGED <<coreVars, dataVars, call, ret, tasks_>>
       ELSE IF frame.inv = "dangling" \/ frame.it > Len(tasks_)
       THEN reent_wild
       ELSE \/ frame.inv = "shifted" /\ reent_fault
            \/ IF coroutine_done(tasks_[frame.it])
               THEN reent_erase
               ELSE /\ frame' = [frame EXCEPT !.it = @ + 1, !.phase = "check"]
                    /\ UNCHANGED <<coreVars, dataVars, call, ret, tasks_, log>>
    /\ UNCHANGED <<ownVars, desc, prog, current_>>

\* add(std::move(coro)) for coroutine c; realloc: push_back found the
\* buffer full.  Without a reallocation push_back invalidates end() only,
\* which the loops evaluate anew.
reent_add(c, realloc) ==
    /\ IF add_accepts(c) /\ c \notin log.leaked
       THEN /\ tasks_' = Append(tasks_, c)
            /\ frame' = IF realloc
                        THEN [frame EXCEPT !.inv = "dangling", !.outer = Dangling(@)]
                        ELSE frame
       ELSE UNCHANGED <<tasks_, frame>>
    /\ UNCHANGED <<coreVars, dataVars, call, ret, log>>

Reallocs == IF frame.op = "idle" THEN {FALSE} ELSE BOOLEAN

reent_thread_resume ==
    /\ InThread
    /\ \E c \in ReentHeld : mco_resume_from(c, 0)
    /\ UNCHANGED <<ownVars, auxVars>>

reent_thread_add ==
    /\ InThread
    /\ \E c \in ReentHeld : reent_add(c, FALSE)
    /\ UNCHANGED <<ownVars, desc, prog, current_>>

reent_thread_call ==
    /\ InThread
    /\ \E op \in {"step", "run"} : reent_enter(op)
    /\ UNCHANGED <<ownVars, desc, prog, current_>>

\* The body that executes is at instruction op.
BodyAt(op) ==
    /\ Running /\ InBody
    /\ prog[exec] # <<>> /\ Head(prog[exec]).op = op

\* yield() of the body, whatever it returns: the body goes on with its
\* next statement, at once when yield failed.
reent_yield ==
    /\ BodyAt("yield")
    /\ \E addr \in LocalAddrs(exec) : mco_yield(exec, addr)
    /\ prog' = [prog EXCEPT ![exec] = resume_point(exec)]
    /\ UNCHANGED <<ownVars, desc, frame, tasks_, current_, log>>

reent_body_add ==
    /\ BodyAt("add")
    /\ \E realloc \in Reallocs : reent_add(Head(prog[exec]).v, realloc)
    /\ prog' = [prog EXCEPT ![exec] = Tail(@)]
    /\ UNCHANGED <<ownVars, desc, current_>>

reent_body_call ==
    /\ \E op \in {"step", "run"} : BodyAt(op) /\ reent_enter(op)
    /\ prog' = [prog EXCEPT ![exec] = Tail(@)]
    /\ UNCHANGED <<ownVars, desc, current_>>

reent_body_return ==
    /\ Running /\ InBody /\ prog[exec] = <<>>
    /\ mco_main_return
    /\ UNCHANGED <<ownVars, auxVars>>

InitReent ==
    /\ BaseInitRun
    /\ log = [LogNone EXCEPT !.mode = "reent"] @@ [leaked |-> {}]
    /\ \E ps \in [Tasks -> Programs(ReentInstrs, MaxYield)] :
          prog = [c \in Coros |-> IF c \in Tasks THEN ps[c] ELSE <<>>]

NextReent ==
    \/ reent_thread_resume
    \/ reent_thread_add
    \/ reent_thread_call
    \/ reent_loop
    \/ reent_resumed
    \/ reent_yield
    \/ reent_body_add
    \/ reent_body_call
    \/ reent_body_return

SpecReent == InitReent /\ [][NextReent]_vars

\* C38: no call of step or run returns an error, and the loops resume no
\* dead task and see no failure of resume but not_suspended.
C38_RunnerNeverFails ==
    /\ [](/\ log.ret \in {<<>>, <<"true">>, <<"false">>, <<"success">>}
          /\ (frame.op \in {"step", "run"} /\ frame.phase = "resumed")
                => frame.res \in {"success", "not_suspended"})
    /\ [][(frame.op \in {"step", "run"} /\ frame.phase = "check"
           /\ frame' = [frame EXCEPT !.phase = "resumed", !.res = frame'.res]) =>
             (call'.op = "resume" /\ call'.co \in alive
              /\ state[call'.co] # "dead")]_vars

\* A step called by a body inside a step of the thread has erased the task
\* before the body's own and has returned true; the body has yielded, and
\* the outer call is about to use its iterator, which refers to nothing.
C38_Witness ==
    /\ frame.op = "step" /\ frame.stack = MAIN /\ frame.outer = <<>>
    /\ frame.inv = "shifted" /\ frame.phase = "resumed" /\ exec = MAIN
    /\ frame.it > Len(tasks_)
    /\ log.ret = <<"true">>
    /\ tasks_ = <<1>> /\ state[1] = "suspended"

\* ------------------------------------------------------------------------
\* SpecValue: yield_value(h, v) in the body of one coroutine whose byte-stack
\* holds one value; h is the coroutine's own handle or a null handle, and the
\* yield may start from a frame address below the stack.  The thread resumes
\* the coroutine and pops.  log.ret: what the last call of yield_value that
\* failed returned.
\* ------------------------------------------------------------------------
BaseInitTight ==
    /\ alive = {1}
    /\ ncreated = 1
    /\ state = [c \in Coros |-> IF c = 1 THEN mco_init_state ELSE "dead"]
    /\ prev_co = [c \in Coros |-> NULL]
    /\ co_magic = [c \in Coros |-> IF c = 1 THEN magic_number ELSE 0]
    /\ storage = [c \in Coros |-> IF c = 1 THEN [i \in 0..(sizeof_T - 1) |-> 0] ELSE <<>>]
    /\ bytes_stored = [c \in Coros |-> 0]
    /\ storage_size = [c \in Coros |-> IF c = 1 THEN sizeof_T ELSE 0]
    /\ ctx = [c \in Coros |-> c]
    /\ back_ctx = [c \in Coros |-> MAIN]
    /\ mco_current_co = NULL
    /\ exec = MAIN
    /\ pc = [s \in Stacks |-> IF s = MAIN THEN "body" ELSE IF s = 1 THEN "start" ELSE "none"]
    /\ arg = [s \in Stacks |-> IF s = 1 THEN 1 ELSE NULL]
    /\ call = [op |-> "create", co |-> NULL, len |-> sizeof_T, null |-> FALSE,
               by |-> MAIN, own |-> 0, from |-> 0, stack |-> StackSize, addr |-> 0]
    /\ ret = Ret("create", 1, "success", <<>>, <<>>)
    /\ lifo = [c \in Coros |-> <<>>]
    /\ freed = [c \in Coros |-> 0]
    /\ owners = {}
    /\ handle_ = [o \in Owners |-> NULL]
    /\ func_wrapper_ = [o \in Owners |-> NULL]
    /\ wrapper_freed = [c \in Coros |-> 0]
    /\ desc = DescNone
    /\ frame = FrameIdle
    /\ tasks_ = <<>>
    /\ current_ = <<>>

ValueInstrs ==
    {Instr("yield_value", v) : v \in Byte} \cup {Instr("yield_value_null", MaxByte)}

\* Variant: yield_value goes on to the yield whatever push returned.
push_ok_ignored(res) == TRUE

\* if (!push_result) return push_result;
push_ok(res) == res = "success"

AtPush ==
    /\ exec = 1 /\ prog[1] # <<>>
    /\ Head(prog[1]).op \in {"yield_value", "yield_value_null"}

AtYield ==
    /\ exec = 1 /\ prog[1] # <<>>
    /\ Head(prog[1]).op = "yield_value.yield"

\* auto push_result = h.push(value); if (!push_result) return push_result;
value_push ==
    /\ AtPush
    /\ LET h == IF Head(prog[1]).op = "yield_value" THEN 1 ELSE NULL
           v == Head(prog[1]).v
       IN /\ mco_push(h, BytesOf(v), sizeof_T, FALSE)
          /\ IF push_ok(ret'.res)
             THEN /\ prog' = [prog EXCEPT ![1] = <<Instr("yield_value.yield", v)>> \o Tail(@)]
                  /\ UNCHANGED log
             ELSE /\ prog' = [prog EXCEPT ![1] = Tail(@)]
                  /\ log' = [log EXCEPT !.ret = <<ret'.res>>]
    /\ UNCHANGED <<ownVars, desc, frame, tasks_, current_>>

\* return h.yield();
value_yield ==
    /\ AtYield
    /\ \E addr \in LocalAddrs(1) : mco_yield(1, addr)
    /\ prog' = [prog EXCEPT ![1] = Tail(@)]
    /\ log' = IF exec' = exec THEN [log EXCEPT !.ret = <<ret'.res>>] ELSE log
    /\ UNCHANGED <<ownVars, desc, frame, tasks_, current_>>

value_return ==
    /\ exec = 1 /\ prog[1] = <<>>
    /\ mco_main_return
    /\ UNCHANGED <<ownVars, auxVars>>

value_resume ==
    /\ exec = MAIN
    /\ mco_resume(1)
    /\ UNCHANGED <<ownVars, auxVars>>

value_pop ==
    /\ exec = MAIN
    /\ mco_pop(1, sizeof_T, FALSE)
    /\ UNCHANGED <<ownVars, auxVars>>

InitValue ==
    /\ BaseInitTight
    /\ \E p \in Programs(ValueInstrs, MaxProg) :
          /\ prog = [c \in Coros |-> IF c = 1 THEN p ELSE <<>>]
          /\ log = [LogNone EXCEPT !.mode = "value", !.start = p]

NextValue ==
    \/ value_push
    \/ value_yield
    \/ value_return
    \/ value_resume
    \/ value_pop

SpecValue == InitValue /\ [][NextValue]_vars

\* The value on top of the byte-stack of coroutine c.
Top(c) == memcpy_out(storage[c], bytes_stored[c] - sizeof_T, sizeof_T)

\* C39: when the push of yield_value fails (not_enough_space, or
\* invalid_coroutine for a null handle), yield_value returns that error, the
\* coroutine stays running and executing, and the byte-stack is as before;
\* the coroutine is suspended by yield_value only after a push that
\* succeeded, and then with v on top of the byte-stack.
C39_YieldValue ==
    /\ [](AtYield => /\ call.op = "push" /\ call.co = 1 /\ ret.res = "success"
                     /\ state[1] = "running"
                     /\ Top(1) = BytesOf(Head(prog[1]).v))
    /\ [][/\ (AtPush /\ prog' # prog /\ ret'.res # "success") =>
                /\ ret'.op = "push"
                /\ ret'.res \in {"not_enough_space", "invalid_coroutine"}
                /\ log'.ret = <<ret'.res>>
                /\ prog'[1] = Tail(prog[1])
                /\ state'[1] = "running" /\ exec' = 1 /\ mco_current_co' = 1
                /\ UNCHANGED <<storage, bytes_stored>>
          /\ (state[1] = "running" /\ state'[1] = "suspended") =>
                /\ AtYield
                /\ exec' = MAIN
                /\ Top(1)' = BytesOf(Head(prog[1]).v)]_vars

\* yield_value found the byte-stack full (the yield of the call before it
\* had failed and left its value) and returned not_enough_space; the body
\* runs on.
C39_Witness ==
    /\ exec = 1 /\ state[1] = "running"
    /\ call.op = "push" /\ ret.res = "not_enough_space"
    /\ log.ret = <<"not_enough_space">>
    /\ bytes_stored[1] = sizeof_T
    /\ Len(prog[1]) < Len(log.start)

\* ------------------------------------------------------------------------
\* SpecGenTight: SpecGen with a byte-stack that holds one value of T (the
\* largest T that is storable fills the default storage), so that a body
\* yields more values than the byte-stack holds.
\* ------------------------------------------------------------------------
InitGenTight ==
    /\ BaseInitTight
    /\ \E p \in Programs(GenInstrs, MaxProg) : \E mode \in {"next", "iterate"} :
          /\ prog = [c \in Coros |-> IF c = gen_coro THEN p ELSE <<>>]
          /\ log = [LogNone EXCEPT !.mode = mode, !.start = p]

SpecGenTight == InitGenTight /\ [][NextGen]_vars

\* C40: with a body that only calls yield_value, the byte-stack is empty
\* after every next() that returns a value; it never holds more than one
\* value, and neither a push of the body nor a call of next() fails with
\* not_enough_space, however many values the body yields.
C40_ByteStackEmptiedByNext ==
    /\ [](AllYieldValue(log.start) =>
             /\ bytes_stored[gen_coro] <= sizeof_T
             /\ ret.res # "not_enough_space"
             /\ log.ret = <<>> \/ log.ret[1].kind # "error")
    /\ [][(AllYieldValue(log.start) /\ log'.ret # <<>>
           /\ log'.ret[1].kind = "value" /\ log'.calls > log.calls) =>
             (call'.op = "pop" /\ bytes_stored'[gen_coro] = 0)]_vars

\* The body yielded three values through a byte-stack that holds one; the
\* third call of next() has returned the third.
C40_Witness ==
    /\ log.mode = "next" /\ AllYieldValue(log.start)
    /\ Len(log.start) = MaxProg /\ MaxProg > storage_size[gen_coro]
    /\ Len(log.out) = MaxProg
    /\ log.ret = <<Value(log.start[MaxProg].v)>>
    /\ bytes_stored[gen_coro] = 0 /\ state[gen_coro] = "suspended"

====
